---------------------------- MODULE Spec2Model ----------------------------
(***************************************************************************)
(* Compliance checking engine: similarity matcher, DOCX/PPTX check         *)
(* catalogs, parallel rule engine and aggregator                           *)
(* (src/base_checker.py, src/docx_compliance.py, src/pptx_compliance.py,   *)
(* src/smart_compliance_checker_complete_Version2.py).                     *)
(*                                                                         *)
(* Scores are Python floats (IEEE-754 binary64).  They are modelled        *)
(* bit-exactly: a float is a record [e, m] with m the 53-bit significand   *)
(* (as 13-bit limbs, least significant first) and value m * 2^e; 0.0 is    *)
(* [e |-> 0, m |-> <<>>].  Every operation rounds to nearest, ties to      *)
(* even, as the hardware does.  All values in the model are non-negative   *)
(* and far from the overflow and subnormal ranges.                         *)
(***************************************************************************)
EXTENDS Integers, Sequences, FiniteSets, TLC

-----------------------------------------------------------------------------
(* Binary64 arithmetic *)

\* Width of the binary64 significand (hidden bit included).
MantBits == 53

\* Significands are kept as sequences of 13-bit limbs, least significant
\* limb first, so that every intermediate value fits a machine integer.
LimbBits == 13

Base == 2 ^ LimbBits

Zeros(k) == [i \in 1..k |-> 0]

LimbAt(a, i) == IF i >= 1 /\ i <= Len(a) THEN a[i] ELSE 0

\* Propagate carries through a sequence of column values.
RECURSIVE BNormFrom(_, _, _, _)
BNormFrom(cols, i, carry, acc) ==
    IF i > Len(cols)
    THEN IF carry = 0 THEN acc ELSE BNormFrom(<<carry>>, 1, 0, acc)
    ELSE LET s == cols[i] + carry
         IN  BNormFrom(cols, i + 1, s \div Base, Append(acc, s % Base))

BNorm(cols) == BNormFrom(cols, 1, 0, <<>>)

Max2(a, b) == IF a >= b THEN a ELSE b

Min2(a, b) == IF a <= b THEN a ELSE b

BAdd(a, b) == BNorm([i \in 1..Max2(Len(a), Len(b)) |-> LimbAt(a, i) + LimbAt(b, i)])

\* Column k of the schoolbook product: sum of a[i] * b[k + 1 - i].
RECURSIVE ColumnSum(_, _, _, _)
ColumnSum(a, b, k, i) ==
    IF i > Len(a) THEN 0
    ELSE LimbAt(a, i) * LimbAt(b, k + 1 - i) + ColumnSum(a, b, k, i + 1)

BMul(a, b) == BNorm([k \in 1..(Len(a) + Len(b)) |-> ColumnSum(a, b, k, 1)])

\* Index of the highest non-zero limb (0 when there is none).
RECURSIVE TopLimb(_, _)
TopLimb(a, i) == IF i = 0 THEN 0 ELSE IF a[i] # 0 THEN i ELSE TopLimb(a, i - 1)

\* Number of bits of a positive integer below Base.
IntBits(v) == CHOOSE k \in 1..LimbBits : 2 ^ (k - 1) <= v /\ v < 2 ^ k

\* Number of significant bits of a limb sequence (0 for zero).
BLen(a) ==
    LET t == TopLimb(a, Len(a))
    IN  IF t = 0 THEN 0 ELSE (t - 1) * LimbBits + IntBits(a[t])

\* a * 2^k.
BShl(a, k) ==
    LET q == k \div LimbBits
        r == k % LimbBits
    IN  Zeros(q) \o BNorm([i \in 1..Len(a) |-> a[i] * (2 ^ r)])

\* floor(a / 2^k).
BShr(a, k) ==
    LET q == k \div LimbBits
        r == k % LimbBits
    IN  [i \in 1..Max2(Len(a) - q, 0) |->
            (a[i + q] \div (2 ^ r)) + (LimbAt(a, i + q + 1) % (2 ^ r)) * (2 ^ (LimbBits - r))]

\* a mod 2^k # 0.
HasLowBits(a, k) ==
    LET q == k \div LimbBits
        r == k % LimbBits
    IN  \/ \E i \in 1..Min2(q, Len(a)) : a[i] # 0
        \/ LimbAt(a, q + 1) % (2 ^ r) # 0

\* Bit i (1 = least significant) of a limb sequence.
BBit(a, i) == (LimbAt(a, ((i - 1) \div LimbBits) + 1) \div (2 ^ ((i - 1) % LimbBits))) % 2

\* A significand: exactly MantBits bits, in the fixed number of limbs.
MantLimbs == (MantBits + LimbBits - 1) \div LimbBits

Fit(a) == [i \in 1..MantLimbs |-> LimbAt(a, i)]

FZero == [e |-> 0, m |-> <<>>]

IsZero(x) == x.m = <<>>

\* Round the exact value a * 2^e (plus, when sticky, a non-zero fraction of
\* its last place) to binary64: to nearest, ties to even.
RoundNearestEven(a, e, sticky) ==
    LET L == BLen(a)
    IN  IF L = 0 THEN FZero
        ELSE IF L <= MantBits
        THEN [e |-> e - (MantBits - L), m |-> Fit(BShl(a, MantBits - L))]
        ELSE LET d     == L - MantBits
                 kept  == BShr(a, d)
                 guard == BBit(a, d)
                 st    == sticky \/ HasLowBits(a, d - 1)
                 up    == guard = 1 /\ (st \/ BBit(kept, 1) = 1)
                 r     == IF up THEN BAdd(kept, <<1>>) ELSE kept
             IN  IF BLen(r) > MantBits
                 THEN [e |-> e + d + 1, m |-> Fit(BShr(r, 1))]
                 ELSE [e |-> e + d, m |-> Fit(r)]

\* x + y
FAdd(x, y) ==
    IF IsZero(x) THEN y
    ELSE IF IsZero(y) THEN x
    ELSE LET emin == Min2(x.e, y.e)
         IN  RoundNearestEven(BAdd(BShl(x.m, x.e - emin), BShl(y.m, y.e - emin)),
                              emin, FALSE)

\* x * y
FMul(x, y) ==
    IF IsZero(x) \/ IsZero(y) THEN FZero
    ELSE RoundNearestEven(BMul(x.m, y.m), x.e + y.e, FALSE)

\* Long division of a limb sequence by a small positive integer, most
\* significant limb first; returns the quotient limbs and the remainder.
RECURSIVE BDivFrom(_, _, _, _, _)
BDivFrom(a, n, i, rem, acc) ==
    IF i = 0 THEN [q |-> acc, r |-> rem]
    ELSE LET cur == rem * Base + a[i]
         IN  BDivFrom(a, n, i - 1, cur % n, <<cur \div n>> \o acc)

\* x / n for a small positive integer n (which converts exactly to a float):
\* the quotient is computed to 2 * LimbBits extra bits, then rounded once.
FDivInt(x, n) ==
    IF IsZero(x) THEN FZero
    ELSE LET a == Zeros(2) \o x.m
             d == BDivFrom(a, n, Len(a), 0, <<>>)
         IN  RoundNearestEven(d.q, x.e - 2 * LimbBits, d.r # 0)

RECURSIVE NatLimbs(_)
NatLimbs(n) == IF n = 0 THEN <<>> ELSE <<n % Base>> \o NatLimbs(n \div Base)

\* float(n) for a natural n.
FromInt(n) == RoundNearestEven(NatLimbs(n), 0, FALSE)

\* The float nearest to p/q: the decimal literal p/q, or int / int in Python 3.
FromRatio(p, q) == FDivInt(FromInt(p), q)

\* a > b for two significands.
RECURSIVE BGreaterFrom(_, _, _)
BGreaterFrom(a, b, i) ==
    IF i = 0 THEN FALSE
    ELSE IF a[i] # b[i] THEN a[i] > b[i]
    ELSE BGreaterFrom(a, b, i - 1)

FGreater(x, y) ==
    IF IsZero(x) THEN FALSE
    ELSE IF IsZero(y) THEN TRUE
    ELSE IF x.e # y.e THEN x.e > y.e
    ELSE BGreaterFrom(x.m, y.m, MantLimbs)

\* x >= y
FGeq(x, y) == x = y \/ FGreater(x, y)

\* A faulty min that returns its first argument.
FirstArgument(x, y) == x

\* min(x, y)
FMin(x, y) == IF FGreater(x, y) THEN y ELSE x

FOne == FromInt(1)

-----------------------------------------------------------------------------
(* Similarity matcher: src/base_checker.py *)

\* Python's None, kept apart from every string (strings are sequences of
\* one-character strings).
None == <<"None">>

\* `not v` for a value that is None or a string.
Falsy(v) == v = None \/ v = <<>>

Whitespace == {" ", "\t"}

UpperCase == <<"A", "B", "C", "D", "E", "F", "G", "H", "I", "J", "K", "L",
               "M", "N", "O", "P", "Q", "R", "S", "T", "U", "V", "W", "X",
               "Y", "Z">>

LowerCase == <<"a", "b", "c", "d", "e", "f", "g", "h", "i", "j", "k", "l",
               "m", "n", "o", "p", "q", "r", "s", "t", "u", "v", "w", "x",
               "y", "z">>

\* str.strip(): drop leading and trailing whitespace.
RECURSIVE LStrip(_)
LStrip(s) == IF s # <<>> /\ Head(s) \in Whitespace THEN LStrip(Tail(s)) ELSE s

RECURSIVE RStrip(_)
RStrip(s) ==
    IF s # <<>> /\ s[Len(s)] \in Whitespace THEN RStrip(SubSeq(s, 1, Len(s) - 1)) ELSE s

Strip(s) == RStrip(LStrip(s))

\* The lower-case letter of every upper-case letter.
ToLower ==
    [c \in {UpperCase[i] : i \in 1..Len(UpperCase)} |->
        LowerCase[CHOOSE i \in 1..Len(UpperCase) : UpperCase[i] = c]]

LowerChar(c) == IF c \in DOMAIN ToLower THEN ToLower[c] ELSE c

\* str.lower()
Lower(s) == [i \in 1..Len(s) |-> LowerChar(s[i])]

\* str.replace(c, "")
Remove(s, c) == SelectSeq(s, LAMBDA ch : ch # c)

\* A faulty normalisation that keeps underscores.
NormalizeKeepingUnderscores(text) ==
    IF Falsy(text) THEN <<>>
    ELSE Remove(Remove(Lower(Strip(text)), " "), "-")

_normalize_text_cached(text) ==
    IF Falsy(text) THEN <<>>
    ELSE Remove(Remove(Remove(Lower(Strip(text)), " "), "-"), "_")

\* set(s)
CharSet(s) == {s[i] : i \in 1..Len(s)}

\* A faulty score that divides by the size of the first character set
\* instead of the size of the union.
SimilarityOverFirstSet(text1, text2) ==
    IF Falsy(text1) \/ Falsy(text2) THEN FZero
    ELSE LET norm1 == _normalize_text_cached(text1)
             norm2 == _normalize_text_cached(text2)
         IN  IF norm1 = norm2 THEN FOne
             ELSE LET set1 == CharSet(norm1)
                      set2 == CharSet(norm2)
                  IN  IF set1 # {}
                      THEN FromRatio(Cardinality(set1 \cap set2), Cardinality(set1))
                      ELSE FZero

_calculate_similarity_score(text1, text2) ==
    IF Falsy(text1) \/ Falsy(text2) THEN FZero
    ELSE LET norm1 == _normalize_text_cached(text1)
             norm2 == _normalize_text_cached(text2)
         IN  IF norm1 = norm2 THEN FOne
             ELSE LET set1 == CharSet(norm1)
                      set2 == CharSet(norm2)
                      intersection == Cardinality(set1 \cap set2)
                      union == Cardinality(set1 \cup set2)
                  IN  IF union > 0 THEN FromRatio(intersection, union) ELSE FZero

-----------------------------------------------------------------------------
(* Rule engine and aggregator: src/base_checker.py *)

\* config.COMPLIANCE_THRESHOLD = 0.6
COMPLIANCE_THRESHOLD == FromRatio(6, 10)

\* The ComplianceResult dataclass.
ComplianceResult(check_name, passed, score, details, errors) ==
    [check_name |-> check_name, passed |-> passed, score |-> score,
     details |-> details, errors |-> errors]

IsComplianceResult(r) == "check_name" \in DOMAIN r

\* dict.get(key, default)
DictGet(d, key, default) == IF key \in DOMAIN d THEN d[key] ELSE default

\* The empty dict.
EmptyDict == [k \in {} |-> 0]

\* What calling a check function does: it returns a ComplianceResult,
\* returns a dict in the legacy format, or raises.
Returns(r) == [kind |-> "result", value |-> r]
ReturnsDict(d) == [kind |-> "legacy", value |-> d]
Raises(msg) == [kind |-> "raise", value |-> msg]

\* Body of the as_completed loop for one future: future.result() and the
\* conversion of what it gives into a ComplianceResult.
CollectFuture(check_name, outcome) ==
    IF outcome.kind = "raise"
    THEN ComplianceResult(check_name, FALSE, FZero,
                          [error |-> outcome.value], <<outcome.value>>)
    ELSE IF IsComplianceResult(outcome.value)
    THEN outcome.value
    ELSE ComplianceResult(check_name,
                          DictGet(outcome.value, "passed", FALSE),
                          DictGet(outcome.value, "score", FZero),
                          outcome.value,
                          DictGet(outcome.value, "errors", <<>>))

\* Sum of the scores in list order, as the reduction of the score array does.
RECURSIVE SumScores(_, _)
SumScores(results, i) ==
    IF i = 0 THEN FZero ELSE FAdd(SumScores(results, i - 1), results[i].score)

\* A faulty mean that leaves the failed checks out.
MeanOfPassed(results) ==
    LET passed == SelectSeq(results, LAMBDA r : r.passed)
    IN  IF passed = <<>> THEN FZero ELSE FDivInt(SumScores(passed, Len(passed)), Len(passed))

\* np.mean(scores)
Mean(results) == FDivInt(SumScores(results, Len(results)), Len(results))

PassedCount(results) == Cardinality({i \in 1..Len(results) : results[i].passed})

\* The banding of _calculate_overall_score.
ComplianceLevel(overall_score) ==
    IF FGeq(overall_score, FromRatio(9, 10)) THEN "Fully Compliant"
    ELSE IF FGeq(overall_score, COMPLIANCE_THRESHOLD) THEN "Compliant"
    ELSE IF FGeq(overall_score, FromRatio(4, 10)) THEN "Partially Compliant"
    ELSE "Non-compliant"

\* A dict built by assigning key(results[i]) -> val(results[i]) in list
\* order: a later result replaces an earlier one of the same name.
DictOf(results, val(_)) ==
    [nm \in {results[i].check_name : i \in 1..Len(results)} |->
        LET last == CHOOSE i \in 1..Len(results) :
                        /\ results[i].check_name = nm
                        /\ \A j \in (i + 1)..Len(results) : results[j].check_name # nm
        IN  val(results[last])]

_calculate_overall_score(results) ==
    IF results = <<>>
    THEN [overall_score |-> FZero, passed_checks |-> 0, total_checks |-> 0,
          compliance_level |-> "Non-compliant"]
    ELSE LET overall_score == Mean(results)
             passed_count == PassedCount(results)
         IN  [overall_score |-> overall_score,
              pass_rate |-> FromRatio(passed_count, Len(results)),
              passed_checks |-> passed_count,
              total_checks |-> Len(results),
              compliance_level |-> ComplianceLevel(overall_score),
              individual_scores |-> DictOf(results, LAMBDA r : r.score)]

\* The report returned by the except clause of run_all_checks.
ErrorReport(msg) ==
    [individual_checks |-> EmptyDict,
     overall_statistics |-> [overall_score |-> FZero, passed_checks |-> 0,
                             total_checks |-> 0, compliance_level |-> "Error"],
     error |-> msg]

\* run_all_checks from "Calculate overall scores" on.  A list element that
\* is not a ComplianceResult has no .score attribute: the AttributeError
\* is caught by the except clause.
BuildReport(results, parallel, max_workers) ==
    IF \E i \in 1..Len(results) : ~IsComplianceResult(results[i])
    THEN ErrorReport("'dict' object has no attribute 'score'")
    ELSE [individual_checks |->
              DictOf(results, LAMBDA r : [passed |-> r.passed, score |-> r.score,
                                          details |-> r.details, errors |-> r.errors]),
          overall_statistics |-> _calculate_overall_score(results),
          metadata |-> [total_processing_time |-> FZero,
                        parallel_execution |-> parallel,
                        max_workers |-> IF parallel THEN max_workers ELSE 1]]

-----------------------------------------------------------------------------
(* run_all_checks as a state machine: the calling thread, the worker       *)
(* threads of the ThreadPoolExecutor and the as_completed iterator.        *)

\* Largest number of check functions get_check_functions() returns here.
MaxChecks == 3

\* Worker-pool widths the caller passes as max_workers (4 is the default).
Widths == {1, 4}

\* __name__ of the i-th check function and the check_name its result carries.
FuncNames == <<"_check_first_page_compliance", "_check_footer_compliance",
               "_check_table_of_contents_compliance",
               "_check_embedded_excel_compliance", "_check_milestones_compliance">>

CheckNames == <<"first_page_validation", "footer_validation",
                "table_of_contents_validation", "embedded_excel_validation",
                "milestones_validation">>

\* Scores and verdicts a returning check may carry.
ResultChoices ==
    {[score |-> FromRatio(1, 5), passed |-> FALSE],
     [score |-> FromRatio(4, 5), passed |-> TRUE],
     [score |-> FOne, passed |-> TRUE]}

\* Legacy-format dicts a check may return (keys are optional).
LegacyDicts == {[passed |-> TRUE, score |-> FromRatio(4, 5)]}

\* The behaviours the i-th check function may have.
Behaviours(i) ==
    {Returns(ComplianceResult(CheckNames[i], c.passed, c.score,
                              [similarity_score |-> c.score],
                              IF c.passed THEN <<>> ELSE <<"check failed">>)) :
        c \in ResultChoices}
    \cup {ReturnsDict(d) : d \in LegacyDicts}
    \cup {Raises("check raised")}

\* The lists get_check_functions() may return.
CheckFunctionLists(max) ==
    UNION {{[i \in 1..n |-> [name |-> FuncNames[i], outcome |-> f[i]]] :
                f \in [1..n -> UNION {Behaviours(i) : i \in 1..n}]} : n \in 1..max}

NoReport == [pending |-> TRUE]

VARIABLES
    check_functions,  \* the list get_check_functions() returns
    parallel,         \* argument of run_all_checks
    max_workers,      \* argument of run_all_checks
    pc,               \* where the calling thread is
    submitted,        \* number of check functions submitted to the executor
    finished,         \* indices of the futures that are done
    snapshot,         \* futures as_completed found done at its start, not yet yielded
    waiter,           \* futures done since, not yet yielded, in completion order
    results,          \* the list `results`
    report,           \* what run_all_checks returned
    run,              \* 1 for the first call of run_all_checks, 2 for the second
    first_report,     \* what the first call returned
    text1,            \* arguments of _calculate_similarity_score
    text2,
    similarity,       \* what it returned
    sim_pc,           \* "idle", "call" or "done"
    agg_results,      \* argument of _calculate_overall_score
    agg_stats,        \* what it returned
    agg_pc,           \* "idle", "call" or "done"
    kind,             \* "docx" or "pptx": which checker was built
    document_data,    \* its document_data
    excel_data,       \* its excel_data
    cat_results,      \* results of the checks called so far
    cat_report,       \* what run_all_checks returned
    cat_pc,           \* "idle", "checks", "aggregate" or "done"
    fp_impl,          \* which _check_first_page_compliance is called
    fp_document_data, \* document_data of its checker
    fp_excel_data,    \* excel_data of its checker
    fp_result,        \* what it returned
    fp_pc,            \* "idle", "call" or "done"
    match_call,       \* which matcher function is called
    match_target,     \* arguments of _vectorized_text_match
    match_candidates,
    match_threshold,
    match_result,     \* what it returned
    match_pc,         \* "idle", "call" or "done"
    date_str,         \* argument of normalize_date
    date_once,        \* what it returned
    date_twice,       \* what it returned for that result
    date_pc,          \* "idle", "call", "again" or "done"
    namelist,         \* part names of the archive, in the order it lists them
    slide_files,      \* what _get_slide_list returned
    slide_number,     \* argument of _get_slide_text
    slide_part,       \* the part _get_slide_text reads
    slide_pc,         \* "idle", "list", "text" or "done"
    an_impl,          \* which analyzer was built
    an_container,     \* the input bytes, as the container they encode
    an_cache_enabled, \* cache_enabled of the analyzer
    an_cache,         \* entries of the lru_cache of _cached_analyze, by file hash
    an_outcome,       \* what the last call of analyze() gave its caller
    an_calls,         \* number of calls of analyze() so far
    an_pc,            \* "idle", "call" or "done"
    chk_impl,         \* the module of the check function called on its own
    chk_check,        \* which of its check functions
    chk_document_data,\* document_data of its checker
    chk_excel_data,   \* excel_data of its checker
    chk_result,       \* what it returned
    chk_pc,           \* "idle", "call" or "done"
    st_impl,          \* which status lookup runs
    st_slides,        \* the text of every slide, in slide order
    st_examined,      \* the slide numbers the loop has examined
    st_status,        \* the status captured so far (None: none)
    st_found,         \* the slide numbers recorded with a status
    st_result,        \* the dict the lookup returned
    st_pc,            \* "idle", "loop" or "done"
    pl_check,         \* the check a Version2 run is followed for
    pl_source,        \* the content of the uploaded document
    pl_project_data,  \* st.session_state.project_data
    pl_document_data, \* what analyze() returned
    pl_excel_data,    \* the excel_data the run prepared
    pl_result,        \* the ComplianceResult of the check
    pl_pc,            \* "idle", "analyze", "prepare", "check" or "done"
    rd_df,            \* OptimizedExcelReader._df
    rd_is_loaded,     \* OptimizedExcelReader._is_loaded
    rd_column_mapping,\* OptimizedExcelReader._column_mapping
    rd_data_cache,    \* OptimizedExcelReader._data_cache
    rd_memo,          \* what the lru_cache wrappers of the reader hold
    rd_returned,      \* the last query and the value it returned
    rd_calls,         \* how many calls the reader has served
    sel_impl,         \* which application renders the selection
    sel_release,      \* st.session_state.selected_release
    sel_project,      \* st.session_state.selected_project
    sel_third,        \* selected_enterprise_release_id / selected_business_application
    sel_project_data, \* st.session_state.project_data (Version2)
    sel_pc,           \* where the script run stands
    sel_launched      \* the selections each compliance check was launched with

engine_vars == <<check_functions, parallel, max_workers, pc, submitted, finished,
                 snapshot, waiter, results, report, run, first_report>>

sim_vars == <<text1, text2, similarity, sim_pc>>

agg_vars == <<agg_results, agg_stats, agg_pc>>

cat_vars == <<kind, document_data, excel_data, cat_results, cat_report, cat_pc>>

fp_vars == <<fp_impl, fp_document_data, fp_excel_data, fp_result, fp_pc>>

match_vars == <<match_call, match_target, match_candidates, match_threshold,
                match_result, match_pc>>

date_vars == <<date_str, date_once, date_twice, date_pc>>

slide_vars == <<namelist, slide_files, slide_number, slide_part, slide_pc>>

an_vars == <<an_impl, an_container, an_cache_enabled, an_cache, an_outcome, an_calls,
             an_pc>>

chk_vars == <<chk_impl, chk_check, chk_document_data, chk_excel_data, chk_result, chk_pc>>

status_vars == <<st_impl, st_slides, st_examined, st_status, st_found, st_result, st_pc>>

part_vars == <<match_vars, date_vars, slide_vars, an_vars, chk_vars>>

pipe_vars == <<pl_check, pl_source, pl_project_data, pl_document_data, pl_excel_data,
               pl_result, pl_pc>>

reader_vars == <<rd_df, rd_is_loaded, rd_column_mapping, rd_data_cache, rd_memo,
                 rd_returned, rd_calls>>

select_vars == <<sel_impl, sel_release, sel_project, sel_third, sel_project_data, sel_pc,
                 sel_launched>>

flow_vars == <<status_vars, pipe_vars, reader_vars, select_vars>>

ext_vars == <<part_vars, flow_vars>>

base_vars == <<sim_vars, agg_vars, cat_vars, fp_vars>>

non_engine_vars == <<base_vars, ext_vars>>

vars == <<engine_vars, non_engine_vars>>

\* What the actions of one group leave alone outside their group.
status_rest == <<engine_vars, base_vars, part_vars, pipe_vars, reader_vars, select_vars>>

pipe_rest == <<engine_vars, base_vars, part_vars, status_vars, reader_vars, select_vars>>

reader_rest == <<engine_vars, base_vars, part_vars, status_vars, pipe_vars, select_vars>>

select_rest == <<engine_vars, base_vars, part_vars, status_vars, pipe_vars, reader_vars>>

\* The similarity matcher is not in use.
SimIdle == text1 = None /\ text2 = None /\ similarity = FZero /\ sim_pc = "idle"

\* The aggregator is not in use on its own.
AggIdle == agg_results = <<>> /\ agg_stats = NoReport /\ agg_pc = "idle"

\* No checker with a concrete catalog is in use.
CatalogIdle ==
    /\ kind = "none"
    /\ document_data = EmptyDict
    /\ excel_data = EmptyDict
    /\ cat_results = <<>>
    /\ cat_report = NoReport
    /\ cat_pc = "idle"

\* No first page check is called on its own.
FirstPageIdle ==
    /\ fp_impl = "none"
    /\ fp_document_data = EmptyDict
    /\ fp_excel_data = EmptyDict
    /\ fp_result = NoReport
    /\ fp_pc = "idle"

\* _vectorized_text_match is not called on its own.
MatchIdle ==
    /\ match_call = "none"
    /\ match_target = None
    /\ match_candidates = <<>>
    /\ match_threshold = FZero
    /\ match_result = NoReport
    /\ match_pc = "idle"

\* normalize_date is not in use.
DateIdle == date_str = None /\ date_once = None /\ date_twice = None /\ date_pc = "idle"

\* No slide deck is listed.
SlidesIdle ==
    /\ namelist = <<>>
    /\ slide_files = <<>>
    /\ slide_number = 0
    /\ slide_part = None
    /\ slide_pc = "idle"

\* No analyzer is in use.
AnalyzerIdle ==
    /\ an_impl = "none"
    /\ an_container = EmptyDict
    /\ an_cache_enabled = FALSE
    /\ an_cache = EmptyDict
    /\ an_outcome = NoReport
    /\ an_calls = 0
    /\ an_pc = "idle"

\* No check function is called on its own.
CheckIdle ==
    /\ chk_impl = "none"
    /\ chk_check = "none"
    /\ chk_document_data = EmptyDict
    /\ chk_excel_data = EmptyDict
    /\ chk_result = NoReport
    /\ chk_pc = "idle"

\* No status lookup runs.
StatusIdle ==
    /\ st_impl = "none"
    /\ st_slides = <<>>
    /\ st_examined = <<>>
    /\ st_status = None
    /\ st_found = <<>>
    /\ st_result = NoReport
    /\ st_pc = "idle"

\* No Version2 run is followed.
PipelineIdle ==
    /\ pl_check = "none"
    /\ pl_source = EmptyDict
    /\ pl_project_data = EmptyDict
    /\ pl_document_data = EmptyDict
    /\ pl_excel_data = EmptyDict
    /\ pl_result = NoReport
    /\ pl_pc = "idle"

\* An attribute that holds None where an object may stand.
Unset == [none |-> TRUE]

IsUnset(v) == "none" \in DOMAIN v

\* No reader is followed.
ReaderIdle ==
    /\ rd_df = Unset
    /\ rd_is_loaded = FALSE
    /\ rd_column_mapping = Unset
    /\ rd_data_cache = EmptyDict
    /\ rd_memo = EmptyDict
    /\ rd_returned = NoReport
    /\ rd_calls = 0

\* A session value that is None.
NotSelected == "None"

\* No selection is followed.
SelectionIdle ==
    /\ sel_impl = "none"
    /\ sel_release = NotSelected
    /\ sel_project = NotSelected
    /\ sel_third = NotSelected
    /\ sel_project_data = Unset
    /\ sel_pc = "idle"
    /\ sel_launched = <<>>

FlowIdle == StatusIdle /\ PipelineIdle /\ ReaderIdle /\ SelectionIdle

ExtIdle == MatchIdle /\ DateIdle /\ SlidesIdle /\ AnalyzerIdle /\ CheckIdle /\ FlowIdle

\* run_all_checks is not in use.
EngineIdle ==
    /\ check_functions = <<>>
    /\ parallel = FALSE
    /\ max_workers = 1
    /\ pc = "idle"
    /\ submitted = 0
    /\ finished = {}
    /\ snapshot = {}
    /\ waiter = <<>>
    /\ results = <<>>
    /\ report = NoReport
    /\ run = 1
    /\ first_report = NoReport

NumChecks == Len(check_functions)

WellNamed(fs) == \A i \in 1..Len(fs) : fs[i].outcome \in Behaviours(i)

Init ==
    /\ check_functions \in {fs \in CheckFunctionLists(MaxChecks) : WellNamed(fs)}
    /\ parallel \in BOOLEAN
    /\ max_workers \in Widths
    /\ pc = "call"
    /\ submitted = 0
    /\ finished = {}
    /\ snapshot = {}
    /\ waiter = <<>>
    /\ results = <<>>
    /\ report = NoReport
    /\ run = 1
    /\ first_report = NoReport
    /\ SimIdle
    /\ AggIdle
    /\ CatalogIdle
    /\ FirstPageIdle
    /\ ExtIdle

\* `if parallel and len(check_functions) > 1`
Dispatch ==
    /\ pc = "call"
    /\ pc' = IF parallel /\ NumChecks > 1 THEN "submit" ELSE "sequential"
    /\ UNCHANGED <<check_functions, parallel, max_workers, submitted, finished,
                   snapshot, waiter, results, report, run, first_report, non_engine_vars>>

\* executor.submit(check_func), in list order.
Submit ==
    /\ pc = "submit"
    /\ submitted < NumChecks
    /\ submitted' = submitted + 1
    /\ UNCHANGED <<check_functions, parallel, max_workers, pc, finished,
                   snapshot, waiter, results, report, run, first_report, non_engine_vars>>

\* A checker whose data a check function emptied.
CheckerCleared(i, fields) == [f \in DOMAIN fields |-> EmptyDict]

\* self.document_data and self.excel_data after check function i ran: the
\* check functions read them (`.get`, `in`, indexing) and store nothing.
CheckerAfter(i, fields) == fields

\* A worker thread runs check i to its end.  The pool takes work in
\* submission order and runs at most max_workers checks at a time, so check
\* i can be running only if fewer than max_workers earlier ones are unfinished.
RunCheck(i) ==
    /\ pc \in {"submit", "collect"}
    /\ i <= submitted
    /\ i \notin finished
    /\ Cardinality({j \in 1..(i - 1) : j \notin finished}) < max_workers
    /\ finished' = finished \cup {i}
    /\ waiter' = IF pc = "collect" THEN Append(waiter, i) ELSE waiter
    /\ document_data' =
          CheckerAfter(i, [document_data |-> document_data,
                           excel_data |-> excel_data]).document_data
    /\ excel_data' =
          CheckerAfter(i, [document_data |-> document_data,
                           excel_data |-> excel_data]).excel_data
    /\ UNCHANGED <<check_functions, parallel, max_workers, pc, submitted,
                   snapshot, results, report, run, first_report, kind, cat_results,
                   cat_report, cat_pc, sim_vars, agg_vars, fp_vars, ext_vars>>

\* First step of `for future in as_completed(future_to_check)`: the futures
\* already done are set aside (as a set), the others get a waiter.
AsCompleted ==
    /\ pc = "submit"
    /\ submitted = NumChecks
    /\ snapshot' = finished
    /\ waiter' = <<>>
    /\ pc' = "collect"
    /\ UNCHANGED <<check_functions, parallel, max_workers, submitted, finished,
                   results, report, run, first_report, non_engine_vars>>

\* One iteration of the loop: as_completed yields the futures of the
\* snapshot first, in the iteration order of a set, then the others in the
\* order they finished.
Collect ==
    /\ pc = "collect"
    /\ IF snapshot # {}
       THEN \E i \in snapshot :
               /\ results' = Append(results,
                      CollectFuture(check_functions[i].name, check_functions[i].outcome))
               /\ snapshot' = snapshot \ {i}
               /\ waiter' = waiter
       ELSE /\ waiter # <<>>
            /\ results' = Append(results,
                   CollectFuture(check_functions[Head(waiter)].name,
                                 check_functions[Head(waiter)].outcome))
            /\ waiter' = Tail(waiter)
            /\ snapshot' = snapshot
    /\ UNCHANGED <<check_functions, parallel, max_workers, pc, submitted, finished,
                   report, run, first_report, non_engine_vars>>

\* as_completed yielded at least one future.
SomeYielded(yielded, futures) == yielded >= 1

\* `for future in as_completed(future_to_check)` is exhausted: it yielded
\* every future of the dict.
AllYielded(yielded, futures) == yielded = futures

\* End of the loop and of the `with` block: executor.shutdown(wait=True).
ExecutorShutdown ==
    /\ pc = "collect"
    /\ AllYielded(Len(results), NumChecks)
    /\ finished = 1..NumChecks
    /\ pc' = "aggregate"
    /\ UNCHANGED <<check_functions, parallel, max_workers, submitted, finished,
                   snapshot, waiter, results, report, run, first_report, non_engine_vars>>

\* `results = [check_func() for check_func in check_functions]`, one call
\* at a time; a check that raises ends the comprehension and run_all_checks
\* returns from its except clause.
SequentialCall ==
    /\ pc = "sequential"
    /\ Len(results) < NumChecks
    /\ LET outcome == check_functions[Len(results) + 1].outcome
       IN  IF outcome.kind = "raise"
           THEN /\ report' = ErrorReport(outcome.value)
                /\ pc' = "done"
                /\ results' = results
           ELSE /\ results' = Append(results, outcome.value)
                /\ pc' = IF Len(results) + 1 = NumChecks THEN "aggregate" ELSE pc
                /\ report' = report
    /\ document_data' =
          CheckerAfter(Len(results) + 1, [document_data |-> document_data,
                                          excel_data |-> excel_data]).document_data
    /\ excel_data' =
          CheckerAfter(Len(results) + 1, [document_data |-> document_data,
                                          excel_data |-> excel_data]).excel_data
    /\ UNCHANGED <<check_functions, parallel, max_workers, submitted, finished,
                   snapshot, waiter, run, first_report, kind, cat_results,
                   cat_report, cat_pc, sim_vars, agg_vars, fp_vars, ext_vars>>

\* Overall statistics, legacy conversion and return.
Aggregate ==
    /\ pc = "aggregate"
    /\ report' = BuildReport(results, parallel, max_workers)
    /\ pc' = "done"
    /\ UNCHANGED <<check_functions, parallel, max_workers, submitted, finished,
                   snapshot, waiter, results, run, first_report, non_engine_vars>>

\* The caller runs the batch again on the same checker, with any pool width.
RunAgain ==
    /\ pc = "done"
    /\ run = 1
    /\ run' = 2
    /\ first_report' = report
    /\ max_workers' \in Widths
    /\ pc' = "call"
    /\ submitted' = 0
    /\ finished' = {}
    /\ snapshot' = {}
    /\ waiter' = <<>>
    /\ results' = <<>>
    /\ report' = NoReport
    /\ UNCHANGED <<check_functions, parallel, non_engine_vars>>

Next ==
    \/ Dispatch
    \/ Submit
    \/ \E i \in 1..NumChecks : RunCheck(i)
    \/ AsCompleted
    \/ Collect
    \/ ExecutorShutdown
    \/ SequentialCall
    \/ Aggregate
    \/ RunAgain

Spec == Init /\ [][Next]_vars

\* The result check i gives when it is run and collected on its own.
StandAlone(i) == CollectFuture(check_functions[i].name, check_functions[i].outcome)

\* The results of all checks in the order of the catalog.
CatalogOrder == [i \in 1..NumChecks |-> StandAlone(i)]

\* The part of a report that carries the verdicts.
ReportContent(r) ==
    [individual_checks |-> r.individual_checks,
     overall_statistics |-> r.overall_statistics]

Raised(i) == check_functions[i].outcome.kind = "raise"

\* C1: for a fixed set of check results the report of run_all_checks
\* (overall statistics and per-check results by name) is the same for
\* every order in which the checks complete: it is the report built from
\* the results in catalog order.
C1OrderIndependent ==
    (pc = "done" /\ "error" \notin DOMAIN report) =>
        ReportContent(report)
            = ReportContent(BuildReport(CatalogOrder, parallel, max_workers))

\* C2: running the batch twice on the same data gives identical reports
\* (verdicts and statistics), whether the pool has width 1 or width 4.
C2SameReportTwice ==
    (pc = "done" /\ run = 2) => ReportContent(report) = ReportContent(first_report)

\* C3: a check that raises yields a result with passed = false, score 0.0
\* and a non-empty errors list, and every other check still completes with
\* the result it gives on its own.
C3FailureIsolated ==
    (pc = "done" /\ \E i \in 1..NumChecks : Raised(i)) =>
        \A i \in 1..NumChecks :
            LET name == StandAlone(i).check_name
            IN  /\ name \in DOMAIN report.individual_checks
                /\ IF Raised(i)
                   THEN /\ report.individual_checks[name].passed = FALSE
                        /\ report.individual_checks[name].score = FZero
                        /\ report.individual_checks[name].errors # <<>>
                   ELSE /\ report.individual_checks[name].passed = StandAlone(i).passed
                        /\ report.individual_checks[name].score = StandAlone(i).score
                        /\ report.individual_checks[name].errors = StandAlone(i).errors

\* C4: every report has exactly one entry per check of the catalog, under
\* the name of the check, and total_checks is the number of catalog checks,
\* whatever the completion order and whether each check returned or raised.
C4CompleteBreakdown ==
    pc = "done" =>
        /\ DOMAIN report.individual_checks
              = {StandAlone(i).check_name : i \in 1..NumChecks}
        /\ report.overall_statistics.total_checks = NumChecks

\* C25: parallel check execution has a join-all barrier: the overall
\* statistics are computed, and the report is returned, only after every
\* submitted check has finished (returned or raised); no report is built
\* from a partial set of results.
C25JoinAll ==
    (parallel /\ NumChecks > 1 /\ pc \in {"aggregate", "done"}) =>
        /\ submitted = NumChecks
        /\ finished = 1..NumChecks
        /\ Len(results) = NumChecks
        /\ pc = "done" => report.overall_statistics.total_checks = NumChecks

\* A parallel run of several checks, one of which raised, returned its
\* report, and the last check finished only after as_completed had started.
C25Witness ==
    /\ parallel
    /\ NumChecks > 1
    /\ pc = "done"
    /\ \E i \in 1..NumChecks : Raised(i)
    /\ max_workers < NumChecks
    /\ report.overall_statistics.total_checks = NumChecks

\* The banding of the overall score.
Band(score) ==
    IF FGeq(score, FromRatio(9, 10)) THEN "Fully Compliant"
    ELSE IF FGeq(score, FromRatio(6, 10)) THEN "Compliant"
    ELSE IF FGeq(score, FromRatio(4, 10)) THEN "Partially Compliant"
    ELSE "Non-compliant"

\* C6: in every report returned by run_all_checks, compliance_level is the
\* band of overall_score: Fully Compliant from 0.9, Compliant from 0.6,
\* Partially Compliant from 0.4, Non-compliant below.
C6Banding ==
    pc = "done" =>
        report.overall_statistics.compliance_level
            = Band(report.overall_statistics.overall_score)

-----------------------------------------------------------------------------
(* Field matching and the DOCX check catalog: src/base_checker.py,         *)
(* src/docx_compliance.py.  document_data and excel_data are dicts; a      *)
(* section of document_data that is None makes the check raise inside its  *)
(* try block.                                                              *)

\* A section of doc whose value is None instead of a dict.
NoneSection == [none |-> TRUE]

IsNoneSection(d) == "none" \in DOMAIN d

\* str(e) of the AttributeError raised by None.get(...).
NoneHasNoGet == "'NoneType' object has no attribute 'get'"

\* Default of the threshold parameter of _vectorized_text_match.
MatchThreshold == FromRatio(8, 10)

\* The first of the first i elements of a list.
FirstOf(xs, i) == xs[1]

\* max() of a non-empty list of floats.
RECURSIVE FMaxOf(_, _)
FMaxOf(xs, i) ==
    IF i = 1 THEN xs[1]
    ELSE LET rest == FMaxOf(xs, i - 1)
         IN  IF FGreater(xs[i], rest) THEN xs[i] ELSE rest

_vectorized_text_match(target, candidates, threshold) ==
    IF Falsy(target) \/ candidates = <<>>
    THEN [is_match |-> FALSE, score |-> FZero, best_match |-> None]
    ELSE LET \* similarities.index(max_similarity): the first index of the maximum.
             ArgMax(similarities, max_similarity) ==
                 CHOOSE i \in 1..Len(similarities) :
                     /\ similarities[i] = max_similarity
                     /\ \A j \in 1..(i - 1) : similarities[j] # max_similarity
             Best(similarities, max_similarity) ==
                 [is_match |-> FGeq(max_similarity, threshold),
                  score |-> max_similarity,
                  best_match |-> candidates[ArgMax(similarities, max_similarity)]]
             Max(similarities) == Best(similarities, FMaxOf(similarities, Len(similarities)))
         IN  Max([i \in 1..Len(candidates) |->
                     _calculate_similarity_score(target, candidates[i])])

\* A failed result with one error message.
Failed(check_name, msg) ==
    ComplianceResult(check_name, FALSE, FZero, [error |-> msg], <<msg>>)

_check_field_compliance(field_name, document_value, excel_values) ==
    IF Falsy(document_value)
    THEN Failed(field_name \o "_validation", field_name \o " not found in document")
    ELSE IF excel_values = <<>>
    THEN Failed(field_name \o "_validation", field_name \o " not found in Excel data")
    ELSE LET Result(doc_str, excel_strs, m) ==
                 ComplianceResult(field_name \o "_validation", m.is_match, m.score,
                     [document_value |-> doc_str, excel_values |-> excel_strs,
                      best_match |-> m.best_match, similarity_score |-> m.score],
                     <<>>)
             Match(doc_str, excel_strs) ==
                 Result(doc_str, excel_strs,
                        _vectorized_text_match(doc_str, excel_strs, MatchThreshold))
         IN  Match(document_value, SelectSeq(excel_values, LAMBDA val : val # None))

\* The fields of the first page or slide, in the order they are checked.
FirstPageFields == <<"business_app_id", "enterprise_release_id", "project_name", "task_id">>

\* `'f' in self.excel_data and self.excel_data['f']`
Available(excel, f) == f \in DOMAIN excel /\ excel[f] # <<>>

\* The field_checks list of the first page (or first slide) check.
FieldChecks(page_data, excel) ==
    LET checked == SelectSeq(FirstPageFields, LAMBDA f : Available(excel, f))
    IN  [i \in 1..Len(checked) |->
            _check_field_compliance(checked[i], DictGet(page_data, checked[i], None),
                                    excel[checked[i]])]

\* The result built from the field checks: mean score, passed iff all passed.
FieldChecksResult(check_name, field_checks, more_details) ==
    LET n == Len(field_checks)
        average_score == IF n > 0 THEN FDivInt(SumScores(field_checks, n), n) ELSE FZero
        all_passed == n > 0 /\ \A i \in 1..n : field_checks[i].passed
    IN  ComplianceResult(check_name, all_passed, average_score,
            [field_checks |-> DictOf(field_checks, LAMBDA r : r.details),
             total_fields_checked |-> n,
             fields_passed |-> PassedCount(field_checks)] @@ more_details,
            <<>>)

Docx_check_first_page_compliance(doc, excel) ==
    LET first_page_data == DictGet(doc, "first_page_data", EmptyDict)
    IN  IF IsNoneSection(first_page_data)
        THEN Failed("first_page_validation",
                    "Error checking first page compliance: " \o NoneHasNoGet)
        ELSE FieldChecksResult("first_page_validation",
                               FieldChecks(first_page_data, excel), EmptyDict)

Docx_check_footer_compliance(doc, excel) ==
    LET footer_data == DictGet(doc, "footer_data", EmptyDict)
    IN  IF IsNoneSection(footer_data)
        THEN Failed("footer_validation", "Error checking footer compliance: " \o NoneHasNoGet)
        ELSE LET project_in_footer == DictGet(footer_data, "project_name_in_footer", None)
             IN  IF Falsy(project_in_footer)
                 THEN Failed("footer_validation", "No project name found in footer")
                 ELSE IF Available(excel, "project_name")
                 THEN LET Result(m) ==
                              ComplianceResult("footer_validation", m.is_match, m.score,
                                  [footer_project_name |-> project_in_footer,
                                   excel_project_names |-> excel["project_name"],
                                   best_match |-> m.best_match,
                                   similarity_score |-> m.score],
                                  IF m.is_match THEN <<>>
                                  ELSE <<"Project name in footer does not match Excel data">>)
                      IN  Result(_vectorized_text_match(project_in_footer,
                                     SelectSeq(excel["project_name"],
                                               LAMBDA name : ~Falsy(name)),
                                     MatchThreshold))
                 ELSE Failed("footer_validation", "No project names in Excel data")

Docx_check_table_of_contents_compliance(doc, excel) ==
    LET toc_data == DictGet(doc, "table_of_contents", EmptyDict)
    IN  IF IsNoneSection(toc_data)
        THEN Failed("table_of_contents_validation",
                    "Error checking table of contents: " \o NoneHasNoGet)
        ELSE LET has_toc == DictGet(toc_data, "has_table_of_contents", FALSE)
                 has_scope_section == DictGet(toc_data, "has_scope_section", FALSE)
                 Result(score, errors) ==
                     ComplianceResult("table_of_contents_validation",
                         FGeq(score, FromRatio(8, 10)), score,
                         [has_table_of_contents |-> has_toc,
                          has_scope_section |-> has_scope_section,
                          requirements_met |-> 2 - Len(errors)],
                         errors)
                 \* `if has_scope_section: score += 0.4`
                 WithScope(score) ==
                     IF has_scope_section THEN FAdd(score, FromRatio(4, 10)) ELSE score
             IN  Result(WithScope(IF has_toc THEN FAdd(FZero, FromRatio(6, 10)) ELSE FZero),
                        (IF has_toc THEN <<>> ELSE <<"Table of contents not found">>)
                        \o (IF has_scope_section THEN <<>>
                            ELSE <<"Section 3.3 \"In Scope\" not found">>))

\* The sheet names of config.REQUIRED_WORKSHEETS, as strings.
CoverPage ==
    <<"C", "o", "v", "e", "r", " ", "P", "a", "g", "e">>

GeneralDetails ==
    <<"G", "e", "n", "e", "r", "a", "l", " ", "D", "e", "t", "a", "i", "l",
      "s">>

BusinessScenarios ==
    <<"B", "u", "s", "i", "n", "e", "s", "s", " ", "S", "c", "e", "n", "a",
      "r", "i", "o", "(", "s", ")">>

DataRequirement ==
    <<"D", "a", "t", "a", " ", "R", "e", "q", "u", "i", "r", "e", "m", "e",
      "n", "t">>

Architecture ==
    <<"A", "r", "c", "h", "i", "t", "e", "c", "t", "u", "r", "e">>

LogsContacts ==
    <<"L", "o", "g", "s", "&", "C", "o", "n", "t", "a", "c", "t", "s">>

REQUIRED_WORKSHEETS ==
    {CoverPage, GeneralDetails, BusinessScenarios, DataRequirement, Architecture,
     LogsContacts}

\* `sub in s` for two strings.
Contains(s, sub) ==
    \E i \in 0..(Len(s) - Len(sub)) : SubSeq(s, i + 1, i + Len(sub)) = sub

\* The required worksheets found among the sheet names, and the score of
\* the embedded workbook; both catalogs compute them alike.
RequiredLower == [required_ws \in REQUIRED_WORKSHEETS |-> Lower(required_ws)]

FoundWorksheets(worksheet_names) ==
    LET lower_names == [i \in 1..Len(worksheet_names) |-> Lower(worksheet_names[i])]
    IN  {required_ws \in REQUIRED_WORKSHEETS :
            \E i \in 1..Len(lower_names) :
                Contains(lower_names[i], RequiredLower[required_ws])}

WorksheetScore(worksheet_names) ==
    FromRatio(Cardinality(FoundWorksheets(worksheet_names)),
              Cardinality(REQUIRED_WORKSHEETS))

EmbeddedExcelResult(embedded, missing_msg, more_details) ==
    LET has_embedded_excel == DictGet(embedded, "has_embedded_excel", FALSE)
        worksheet_names == DictGet(embedded, "worksheet_names", <<>>)
        has_architecture == DictGet(embedded, "has_architecture_sheet", FALSE)
        Result(worksheet_score, score) ==
            ComplianceResult("embedded_excel_validation", FGeq(score, FromRatio(7, 10)),
                score,
                [has_embedded_excel |-> has_embedded_excel,
                 worksheet_names |-> worksheet_names,
                 required_worksheets |-> REQUIRED_WORKSHEETS,
                 found_worksheets |-> FoundWorksheets(worksheet_names),
                 has_architecture_sheet |-> has_architecture,
                 worksheet_compliance_rate |-> worksheet_score] @@ more_details,
                IF has_architecture THEN <<>> ELSE <<missing_msg>>)
        \* `if has_architecture: score += 0.2`
        WithArchitecture(score) ==
            IF has_architecture THEN FAdd(score, FromRatio(2, 10)) ELSE score
        \* `score += worksheet_score * 0.8`
        Scored(worksheet_score) ==
            Result(worksheet_score,
                   WithArchitecture(FAdd(FZero, FMul(worksheet_score, FromRatio(8, 10)))))
    IN  Scored(WorksheetScore(worksheet_names))

Docx_check_embedded_excel_compliance(doc, excel) ==
    LET embedded == DictGet(doc, "embedded_excel", EmptyDict)
    IN  IF IsNoneSection(embedded)
        THEN Failed("embedded_excel_validation",
                    "Error checking embedded Excel: " \o NoneHasNoGet)
        ELSE IF ~DictGet(embedded, "has_embedded_excel", FALSE)
        THEN Failed("embedded_excel_validation", "No embedded Excel files found")
        ELSE EmbeddedExcelResult(embedded, "Architecture sheet not found", EmptyDict)

Docx_check_milestones_compliance(doc, excel) ==
    LET milestones_data == DictGet(doc, "milestones", EmptyDict)
    IN  IF IsNoneSection(milestones_data)
        THEN Failed("milestones_validation", "Error checking milestones: " \o NoneHasNoGet)
        ELSE LET has_milestones == DictGet(milestones_data, "has_milestones_section", FALSE)
                 implementation_dates == DictGet(milestones_data, "implementation_dates", <<>>)
                 Result(score, passed) ==
                     ComplianceResult("milestones_validation", passed, score,
                         [has_milestones_section |-> has_milestones,
                          implementation_dates |-> implementation_dates,
                          excel_end_dates |-> DictGet(excel, "end_date", <<>>),
                          dates_found |-> Len(implementation_dates)],
                         IF passed THEN <<>> ELSE <<"Milestones section incomplete">>)
                 \* `passed = score >= 0.6`
                 Scored(score) == Result(score, FGeq(score, FromRatio(6, 10)))
                 \* `if 'end_date' in self.excel_data ...: score = min(score + 0.2, 1.0)`
                 WithEndDate(score) ==
                     IF Available(excel, "end_date")
                     THEN FMin(FAdd(score, FromRatio(2, 10)), FOne) ELSE score
                 \* `if implementation_dates: score += 0.4`
                 WithDates(score) ==
                     IF implementation_dates = <<>> THEN score
                     ELSE WithEndDate(FAdd(score, FromRatio(4, 10)))
             IN  IF ~has_milestones
                 THEN ComplianceResult("milestones_validation", FALSE, FZero,
                          [error |-> "Milestones section not found"],
                          <<"Section 12 milestones not found">>)
                 ELSE Scored(WithDates(FromRatio(6, 10)))

\* The i-th function of get_check_functions() of the DOCX checker, called.
DocxCheck(i, doc, excel) ==
    CASE i = 1 -> Docx_check_first_page_compliance(doc, excel)
      [] i = 2 -> Docx_check_footer_compliance(doc, excel)
      [] i = 3 -> Docx_check_table_of_contents_compliance(doc, excel)
      [] i = 4 -> Docx_check_embedded_excel_compliance(doc, excel)
      [] i = 5 -> Docx_check_milestones_compliance(doc, excel)

-----------------------------------------------------------------------------
(* The PPTX check catalog: src/pptx_compliance.py *)

Pptx_check_first_slide_compliance(doc, excel) ==
    LET first_slide_data == DictGet(doc, "first_slide_data", EmptyDict)
    IN  IF IsNoneSection(first_slide_data)
        THEN Failed("first_slide_validation",
                    "Error checking first slide compliance: " \o NoneHasNoGet)
        ELSE IF ~DictGet(first_slide_data, "has_content", FALSE)
        THEN Failed("first_slide_validation", "First slide has no content")
        ELSE FieldChecksResult("first_slide_validation",
                               FieldChecks(first_slide_data, excel),
                               [slide_has_content |-> TRUE])

Pptx_check_embedded_excel_compliance(doc, excel) ==
    LET embedded == DictGet(doc, "embedded_excel", EmptyDict)
    IN  IF IsNoneSection(embedded)
        THEN Failed("embedded_excel_validation",
                    "Error checking embedded Excel in PPTX: " \o NoneHasNoGet)
        ELSE IF ~DictGet(embedded, "has_embedded_excel", FALSE)
        THEN Failed("embedded_excel_validation", "No embedded Excel files found in PPTX")
        ELSE EmbeddedExcelResult(embedded,
                 "Architecture sheet not found in embedded Excel",
                 [embedded_excel_count |-> DictGet(embedded, "embedded_excel_count", 0)])

Pptx_check_milestones_compliance(doc, excel) ==
    LET milestones_data == DictGet(doc, "milestones", EmptyDict)
    IN  IF IsNoneSection(milestones_data)
        THEN Failed("milestones_validation",
                    "Error checking milestones in PPTX: " \o NoneHasNoGet)
        ELSE LET has_milestones == DictGet(milestones_data, "has_milestones_section", FALSE)
                 milestone_slides == DictGet(milestones_data, "milestone_slides", <<>>)
                 implementation_dates == DictGet(milestones_data, "implementation_dates", <<>>)
                 Result(score, passed) ==
                     ComplianceResult("milestones_validation", passed, score,
                         [has_milestones_section |-> has_milestones,
                          milestone_slides |-> milestone_slides,
                          implementation_dates |-> implementation_dates,
                          excel_end_dates |-> DictGet(excel, "end_date", <<>>),
                          slides_with_milestones |-> Len(milestone_slides),
                          dates_found |-> Len(implementation_dates)],
                         IF passed THEN <<>> ELSE <<"Milestones section incomplete">>)
                 \* `passed = score >= 0.6`
                 Scored(score) == Result(score, FGeq(score, FromRatio(6, 10)))
                 \* `if 'end_date' in self.excel_data ...: score = min(score + 0.2, 1.0)`
                 WithEndDate(score) ==
                     IF Available(excel, "end_date")
                     THEN FMin(FAdd(score, FromRatio(2, 10)), FOne) ELSE score
                 \* `if implementation_dates: score += 0.3`
                 WithDates(score) ==
                     IF implementation_dates = <<>> THEN score
                     ELSE WithEndDate(FAdd(score, FromRatio(3, 10)))
                 \* `if milestone_slides: score += 0.3`
                 WithSlides(score) ==
                     IF milestone_slides # <<>> THEN FAdd(score, FromRatio(3, 10))
                     ELSE score
             IN  IF ~has_milestones
                 THEN Failed("milestones_validation", "No milestones found in any slides")
                 ELSE Scored(WithDates(WithSlides(FromRatio(4, 10))))

\* The indicator words of the PLT status check, as strings.
positive_indicators ==
    {<<"c", "o", "m", "p", "l", "e", "t", "e">>,
     <<"p", "a", "s", "s", "e", "d">>,
     <<"s", "u", "c", "c", "e", "s", "s", "f", "u", "l">>,
     <<"g", "r", "e", "e", "n">>,
     <<"o", "k">>}

negative_indicators ==
    {<<"p", "e", "n", "d", "i", "n", "g">>,
     <<"f", "a", "i", "l", "e", "d">>,
     <<"i", "n", "c", "o", "m", "p", "l", "e", "t", "e">>,
     <<"r", "e", "d">>,
     <<"i", "s", "s", "u", "e">>}

Pptx_check_plt_status_compliance(doc, excel) ==
    LET plt_data == DictGet(doc, "plt_status", EmptyDict)
    IN  IF IsNoneSection(plt_data)
        THEN Failed("plt_status_validation", "Error checking PLT status: " \o NoneHasNoGet)
        ELSE LET has_plt_status == DictGet(plt_data, "has_plt_status", FALSE)
                 plt_status == DictGet(plt_data, "plt_status", None)
                 plt_slides == DictGet(plt_data, "plt_slides", <<>>)
                 plt_status_lower == Lower(plt_status)
                 Result(score, passed) ==
                     ComplianceResult("plt_status_validation", passed, score,
                         [has_plt_status |-> has_plt_status,
                          plt_status |-> plt_status,
                          plt_slides |-> plt_slides,
                          slides_with_plt |-> Len(plt_slides)],
                         IF passed THEN <<>>
                         ELSE <<"PLT status found but may need more detail">>)
                 \* `passed = score >= 0.7`
                 Scored(score) == Result(score, FGeq(score, FromRatio(7, 10)))
                 \* The bonus of the status text.
                 WithStatus(score) ==
                     IF Falsy(plt_status) THEN score
                     ELSE IF \E w \in positive_indicators : Contains(plt_status_lower, w)
                     THEN FAdd(score, FromRatio(3, 10))
                     ELSE IF \E w \in negative_indicators : Contains(plt_status_lower, w)
                     THEN FAdd(score, FromRatio(1, 10))
                     ELSE FAdd(score, FromRatio(2, 10))
             IN  IF ~has_plt_status
                 THEN ComplianceResult("plt_status_validation", FALSE, FZero,
                          [error |-> "PLT status not found in any slides"],
                          <<"PLT (Production Live Testing) status not found">>)
                 ELSE Scored(WithStatus(FromRatio(7, 10)))

Pptx_check_slide_count_compliance(doc, excel) ==
    LET slide_count == DictGet(doc, "slide_count", 0)
        details == [slide_count |-> slide_count, minimum_expected |-> 5,
                    comprehensive_threshold |-> 10]
    IN  IF slide_count >= 10
        THEN ComplianceResult("slide_count_validation", TRUE, FOne, details, <<>>)
        ELSE IF slide_count >= 5
        THEN ComplianceResult("slide_count_validation", TRUE, FromRatio(8, 10), details, <<>>)
        ELSE IF slide_count >= 3
        THEN ComplianceResult("slide_count_validation", TRUE, FromRatio(6, 10), details,
                 <<"Presentation seems short for a comprehensive test report">>)
        ELSE ComplianceResult("slide_count_validation", FALSE, FromRatio(3, 10), details,
                 <<"Presentation is too short for a proper test report">>)

-----------------------------------------------------------------------------
(* The second DOCX checker:                                                *)
(* src/smart_compliance_checker_complete_Version2.py.  It has its own      *)
(* ComplianceResult dataclass and its own first page check, and            *)
(* check_compliance aggregates its five results itself.                    *)

\* The ComplianceResult dataclass of this file.
V2ComplianceResult(passed, score, details, expected, actual, sub_results) ==
    [passed |-> passed, score |-> score, details |-> details, expected |-> expected,
     actual |-> actual, sub_results |-> sub_results]

Digits == {"0", "1", "2", "3", "4", "5", "6", "7", "8", "9"}

AllDigits(s) == \A i \in 1..Len(s) : s[i] \in Digits

\* The upper-case letter of every lower-case letter.
ToUpper ==
    [c \in {LowerCase[i] : i \in 1..Len(LowerCase)} |->
        UpperCase[CHOOSE i \in 1..Len(LowerCase) : LowerCase[i] = c]]

UpperChar(c) == IF c \in DOMAIN ToUpper THEN ToUpper[c] ELSE c

\* str.upper()
Upper(s) == [i \in 1..Len(s) |-> UpperChar(s[i])]

\* A character \w matches.
WordChar(c) == c \in Digits \/ c \in DOMAIN ToUpper \/ c \in DOMAIN ToLower \/ c = "_"

\* re.match(r'^RLSE\d{7}$', s, re.IGNORECASE) on a stripped string.
MatchesRelease(s) ==
    /\ Len(s) = 11
    /\ Upper(SubSeq(s, 1, 4)) = <<"R", "L", "S", "E">>
    /\ AllDigits(SubSeq(s, 5, 11))

\* re.match(r'^\d{8}$', s) on a stripped string.
MatchesApplicationId(s) == Len(s) = 8 /\ AllDigits(s)

\* re.match(r'^PRJ0\d{4}$', s, re.IGNORECASE) on a stripped string.
MatchesProjectId(s) ==
    /\ Len(s) = 8
    /\ Upper(SubSeq(s, 1, 4)) = <<"P", "R", "J", "0">>
    /\ AllDigits(SubSeq(s, 5, 8))

\* re.match(r'\b\d{4}\.M\d{2}\b', s, re.IGNORECASE): a prefix of s.
MatchesEnterpriseRelease(s) ==
    /\ Len(s) >= 8
    /\ AllDigits(SubSeq(s, 1, 4))
    /\ s[5] = "."
    /\ UpperChar(s[6]) = "M"
    /\ AllDigits(SubSeq(s, 7, 8))
    /\ Len(s) > 8 => ~WordChar(s[9])

\* Whether the value _validate_id_format returns is true in a condition.
_validate_id_format(field_type, excel_value, doc_value) ==
    IF Lower(excel_value) = Lower(doc_value) THEN TRUE
    ELSE IF field_type = "release"
    THEN MatchesRelease(doc_value) /\ Upper(excel_value) = Upper(doc_value)
    ELSE IF field_type = "business_app_id"
    THEN MatchesApplicationId(doc_value) /\ excel_value = doc_value
    ELSE IF field_type = "clarity_project_id"
    THEN MatchesProjectId(doc_value) /\ Upper(excel_value) = Upper(doc_value)
    ELSE IF field_type = "enterprise_release_id"
    THEN MatchesEnterpriseRelease(doc_value) /\ Upper(excel_value) = Upper(doc_value)
    ELSE Lower(excel_value) = Lower(doc_value)

\* field_mappings: (excel_field, doc_field, display_name).
field_mappings ==
    <<<<"business_application", "application_name", "Business Application">>,
      <<"business_app_id", "application_id", "Application ID">>,
      <<"clarity_project_id", "project_id", "Project ID">>,
      <<"project_name", "project_name", "Project Name">>,
      <<"release", "release", "Release">>,
      <<"enterprise_release_id", "enterprise_release_id", "Enterprise Release ID">>>>

\* The texts 'Not available' and 'Not found', kept apart from every value.
NotAvailable == <<"Not available">>

NotFound == <<"Not found">>

_safe_get_excel_value(excel, field_name) ==
    IF DictGet(excel, field_name, <<>>) # <<>> /\ excel[field_name][1] # None
    THEN excel[field_name][1]
    ELSE NotAvailable

_format_expected_values(excel) ==
    [f \in {field_mappings[i][1] : i \in 1..Len(field_mappings)}
           \cup {"install_start_date"} |->
        _safe_get_excel_value(excel, f)]

_format_actual_values(first_page_data) ==
    [f \in {field_mappings[i][2] : i \in 1..Len(field_mappings)}
           \cup {"implementation_date"} |->
        DictGet(first_page_data, f, NotFound)]

\* The field_result of one mapping.
FieldResult(excel_field, excel_value, doc_value) ==
    IF ~Falsy(excel_value) /\ ~Falsy(doc_value)
    THEN IF _validate_id_format(excel_field, Strip(excel_value), Strip(doc_value))
         THEN [expected |-> excel_value, actual |-> doc_value, match |-> TRUE,
               status |-> "match"]
         ELSE [expected |-> excel_value, actual |-> doc_value, match |-> FALSE,
               status |-> "mismatch"]
    ELSE [expected |-> excel_value, actual |-> doc_value, match |-> FALSE,
          status |-> IF Falsy(excel_value) THEN "missing_excel"
                     ELSE "missing_document"]

\* What the except clause of a check returns.
V2Error(msg) == V2ComplianceResult(FALSE, FZero, msg, None, None, None)

V2_check_first_page_compliance(doc, excel) ==
    LET first_page_data == DictGet(doc, "first_page_data", EmptyDict)
        total_fields == Len(field_mappings)
        Result(field_results, matches) ==
            V2ComplianceResult(FGeq(FromRatio(matches, total_fields), FromRatio(6, 10)),
                FromRatio(matches, total_fields),
                [matches |-> matches, total_fields |-> total_fields],
                _format_expected_values(excel),
                _format_actual_values(first_page_data),
                field_results)
        Counted(field_results) ==
            Result(field_results,
                   Cardinality({d \in DOMAIN field_results : field_results[d].match}))
    IN  IF IsNoneSection(first_page_data)
        THEN V2Error("Error checking first page: " \o NoneHasNoGet)
        ELSE IF \E i \in 1..total_fields : DictGet(excel, field_mappings[i][1], <<None>>) = <<>>
        THEN V2Error("Error checking first page: list index out of range")
        ELSE Counted([d \in {field_mappings[i][3] : i \in 1..total_fields} |->
                 LET m == CHOOSE i \in 1..total_fields : field_mappings[i][3] = d
                 IN  FieldResult(field_mappings[m][1],
                                 DictGet(excel, field_mappings[m][1], <<None>>)[1],
                                 DictGet(first_page_data, field_mappings[m][2], None))])

\* _generate_compliance_summary: the counts its text reports.
_generate_compliance_summary(detailed_results) ==
    [passed_count |-> Cardinality({i \in 1..Len(detailed_results) :
                                       detailed_results[i].passed}),
     total_count |-> Len(detailed_results)]

\* check_compliance from the point where the five checks have returned
\* detailed_results (in the order of the dict).
check_compliance(detailed_results) ==
    [overall_score |->
         IF Len(detailed_results) > 0
         THEN FDivInt(SumScores(detailed_results, Len(detailed_results)),
                      Len(detailed_results))
         ELSE FZero,
     detailed_results |-> detailed_results,
     compliance_summary |-> _generate_compliance_summary(detailed_results)]

-----------------------------------------------------------------------------
(* The similarity matcher on its own: one call of                          *)
(* _calculate_similarity_score on arbitrary arguments.                     *)

\* Longest first and second argument drawn from the alphabet.
MaxLen1 == 2

MaxLen2 == 2

Alphabet == {"a", "A", "b", " ", "-", "_"}

StringsUpTo(n) == UNION {[1..k -> Alphabet] : k \in 0..n}

\* Three spellings of one release identifier.
RlseSpace == <<"R", "L", "S", "E", " ", "0", "0", "3", "1", "1", "1", "5">>

RlseHyphen == <<"r", "l", "s", "e", "-", "0", "0", "3", "1", "1", "1", "5">>

RlseUnderscore == <<"r", "l", "s", "e", "_", "0", "0", "3", "1", "1", "1", "5">>

Identifiers == {RlseSpace, RlseHyphen, RlseUnderscore}

SimInit ==
    /\ text1 \in StringsUpTo(MaxLen1) \cup Identifiers \cup {None}
    /\ text2 \in StringsUpTo(MaxLen2) \cup Identifiers \cup {None}
    /\ similarity = FZero
    /\ sim_pc = "call"
    /\ EngineIdle
    /\ AggIdle
    /\ CatalogIdle
    /\ FirstPageIdle
    /\ ExtIdle

CalculateSimilarity ==
    /\ sim_pc = "call"
    /\ similarity' = _calculate_similarity_score(text1, text2)
    /\ sim_pc' = "done"
    /\ UNCHANGED <<text1, text2, engine_vars, ext_vars, agg_vars, cat_vars, fp_vars>>

SimNext == CalculateSimilarity

SpecSim == SimInit /\ [][SimNext]_vars

Separators == {" ", "-", "_"}

\* C9: two strings that are equal after normalization (trim, lowercase, no
\* spaces, hyphens or underscores) have similarity 1.0, the three spellings
\* of RLSE 0031115 normalize to the same string, and the similarity is 0.0
\* whenever either input is empty.  The clause about empty inputs decides
\* the case of two empty strings.
C9NormalizedEqual ==
    sim_pc = "done" =>
        /\ (Falsy(text1) \/ Falsy(text2)) => similarity = FZero
        /\ (~Falsy(text1) /\ ~Falsy(text2)
              /\ _normalize_text_cached(text1) = _normalize_text_cached(text2))
           => similarity = FOne
        /\ (text1 \in Identifiers /\ text2 \in Identifiers)
           => /\ _normalize_text_cached(text1) = _normalize_text_cached(text2)
              /\ _normalize_text_cached(text1)
                    = <<"r", "l", "s", "e", "0", "0", "3", "1", "1", "1", "5">>
        /\ \A i \in 1..Len(_normalize_text_cached(text1)) :
              LET c == _normalize_text_cached(text1)[i]
              IN  c \notin Separators /\ LowerChar(c) = c

\* Two different spellings of the release identifier were compared.
C9Witness ==
    /\ sim_pc = "done"
    /\ text1 = RlseSpace
    /\ text2 = RlseUnderscore
    /\ similarity = FOne

\* C10: the similarity is symmetric, _calculate_similarity_score(a, b) =
\* _calculate_similarity_score(b, a) for all a and b, empty ones included.
C10Symmetric ==
    sim_pc = "done" => similarity = _calculate_similarity_score(text2, text1)

\* Two strings with different character sets of different sizes were
\* compared and share a character.
C10Witness ==
    /\ sim_pc = "done"
    /\ ~Falsy(text1)
    /\ ~Falsy(text2)
    /\ Cardinality(CharSet(_normalize_text_cached(text1)))
          # Cardinality(CharSet(_normalize_text_cached(text2)))
    /\ similarity = FromRatio(1, 2)

\* C27: a similarity score of 1.0 is produced only when the two values are
\* equal after normalization; two values whose normalized forms differ,
\* such as the same characters in a different order, score strictly below
\* 1.0.
C27OneOnlyIfEqual ==
    (sim_pc = "done" /\ ~Falsy(text1) /\ ~Falsy(text2)) =>
        /\ similarity = FOne =>
               _normalize_text_cached(text1) = _normalize_text_cached(text2)
        /\ _normalize_text_cached(text1) # _normalize_text_cached(text2) =>
               FGreater(FOne, similarity)

-----------------------------------------------------------------------------
(* The aggregators on their own: one call of _calculate_overall_score on   *)
(* an arbitrary list of results, or the aggregation of check_compliance on *)
(* five arbitrary results.                                                 *)

\* Longest list of results.
MaxResults == 4

\* Scores of the results, in twentieths: 0.0, 0.5, 0.6 and 1.0.
AggScores == {0, 10, 12, 20}

AggResult(i, k, passed) ==
    ComplianceResult(CheckNames[i], passed, FromRatio(k, 20), EmptyDict, <<>>)

\* Size of detailed_results in check_compliance.
V2Checks == 5

\* Scores of those results, in twentieths: 0.0, 0.6 and 1.0.
V2Scores == {0, 12, 20}

V2Result(k, passed) ==
    V2ComplianceResult(passed, FromRatio(k, 20), "details", None, None, None)

AggInit ==
    /\ \/ \E n \in 0..MaxResults :
             \E ks \in [1..n -> AggScores], ps \in [1..n -> BOOLEAN] :
                agg_results = [i \in 1..n |-> AggResult(i, ks[i], ps[i])]
       \/ \E ks \in [1..V2Checks -> V2Scores], ps \in [1..V2Checks -> BOOLEAN] :
             agg_results = [i \in 1..V2Checks |-> V2Result(ks[i], ps[i])]
    /\ agg_stats = NoReport
    /\ agg_pc = "call"
    /\ EngineIdle
    /\ SimIdle
    /\ CatalogIdle
    /\ FirstPageIdle
    /\ ExtIdle

CalculateOverallScore ==
    /\ agg_pc = "call"
    /\ \A i \in 1..Len(agg_results) : IsComplianceResult(agg_results[i])
    /\ agg_stats' = _calculate_overall_score(agg_results)
    /\ agg_pc' = "done"
    /\ UNCHANGED <<agg_results, engine_vars, ext_vars, sim_vars, cat_vars, fp_vars>>

\* `total_score = sum(...)` to the return of check_compliance.
CheckCompliance ==
    /\ agg_pc = "call"
    /\ Len(agg_results) = V2Checks
    /\ \A i \in 1..V2Checks : ~IsComplianceResult(agg_results[i])
    /\ agg_stats' = check_compliance(agg_results)
    /\ agg_pc' = "done"
    /\ UNCHANGED <<agg_results, engine_vars, ext_vars, sim_vars, cat_vars, fp_vars>>

AggNext == CalculateOverallScore \/ CheckCompliance

SpecAgg == AggInit /\ [][AggNext]_vars

\* a <= b for two naturals given as limb sequences.
NatLeq(a, b) ==
    LET n == Max2(Len(a), Len(b))
    IN  ~BGreaterFrom([i \in 1..n |-> LimbAt(a, i)], [i \in 1..n |-> LimbAt(b, i)], n)

\* |x - num/den| <= tol units in the last place of the float x.
WithinUnits(x, num, den, tol) ==
    IF IsZero(x) THEN num = 0
    ELSE LET scaled == BMul(x.m, NatLimbs(den))
             exact == BShl(NatLimbs(num), 0 - x.e)
             slack == NatLimbs(tol * den)
         IN  /\ x.e <= 0
             /\ NatLeq(scaled, BAdd(exact, slack))
             /\ NatLeq(exact, BAdd(scaled, slack))

\* The floats 0/20, 1/20, ..., 20/20.
TwentiethFloats == [k \in 0..20 |-> FromRatio(k, 20)]

\* The score of a result in twentieths.
Twentieths(r) == CHOOSE k \in 0..20 : TwentiethFloats[k] = r.score

RECURSIVE SumTwentieths(_, _)
SumTwentieths(rs, i) == IF i = 0 THEN 0 ELSE SumTwentieths(rs, i - 1) + Twentieths(rs[i])

\* Scores whose sums are exact in binary64: the multiples of 1/4.
Dyadic(rs) == \A i \in 1..Len(rs) : Twentieths(rs[i]) % 5 = 0

\* The scores 1.0, 0.0, 0.5, 1.0.
ExampleScores == <<20, 0, 10, 20>>

\* total_checks and passed_checks of the statistics; check_compliance
\* reports them in its summary.
StatsTotal ==
    IF "compliance_summary" \in DOMAIN agg_stats
    THEN agg_stats.compliance_summary.total_count ELSE agg_stats.total_checks

StatsPassed ==
    IF "compliance_summary" \in DOMAIN agg_stats
    THEN agg_stats.compliance_summary.passed_count ELSE agg_stats.passed_checks

\* C5: overall_score is the arithmetic mean of all individual scores,
\* whatever the verdicts (exactly when the sum of the scores is exact in
\* binary64, and to within one unit in the last place per rounding step
\* otherwise), passed_checks is the number of results with passed = true,
\* and the scores 1.0, 0.0, 0.5, 1.0 give 0.625.
C5ArithmeticMean ==
    (agg_pc = "done" /\ agg_results # <<>>) =>
        LET n == Len(agg_results)
            total == SumTwentieths(agg_results, n)
        IN  /\ StatsTotal = n
            /\ StatsPassed = Cardinality({i \in 1..n : agg_results[i].passed})
            /\ WithinUnits(agg_stats.overall_score, total, 20 * n, n + 1)
            /\ Dyadic(agg_results) => agg_stats.overall_score = FromRatio(total, 20 * n)
            /\ [i \in 1..n |-> Twentieths(agg_results[i])] = ExampleScores
                  => agg_stats.overall_score = FromRatio(625, 1000)

\* The scores 1.0, 0.0, 0.5, 1.0 were aggregated, with verdicts that do not
\* follow the scores, and the mean is 0.625.
C5Witness ==
    /\ agg_pc = "done"
    /\ [i \in 1..Len(agg_results) |-> Twentieths(agg_results[i])] = ExampleScores
    /\ agg_results[1].passed = FALSE
    /\ agg_results[2].passed = TRUE
    /\ agg_stats.passed_checks = 1
    /\ agg_stats.overall_score = FromRatio(5, 8)

-----------------------------------------------------------------------------
(* A checker with a concrete catalog: OptimizedDocxComplianceChecker or    *)
(* OptimizedPptxComplianceChecker is built on extracted document data and  *)
(* reference data, and run_all_checks(parallel=False) calls its checks in  *)
(* catalog order.                                                          *)

\* The i-th function of get_check_functions() of the PPTX checker, called.
PptxCheck(i, doc, excel) ==
    CASE i = 1 -> Pptx_check_first_slide_compliance(doc, excel)
      [] i = 2 -> Pptx_check_embedded_excel_compliance(doc, excel)
      [] i = 3 -> Pptx_check_milestones_compliance(doc, excel)
      [] i = 4 -> Pptx_check_plt_status_compliance(doc, excel)
      [] i = 5 -> Pptx_check_slide_count_compliance(doc, excel)

\* Both catalogs have five checks.
CatalogSize == 5

CatalogCheck(k, i, doc, excel) ==
    IF k = "docx" THEN DocxCheck(i, doc, excel) ELSE PptxCheck(i, doc, excel)

\* Field values: the reference value, a noisy spelling of it, a value that
\* shares 4 of its 5 characters and one that shares 2.
Ref == <<"a", "b", "c", "d", "e">>

Noisy == <<"A", "b", " ", "c", "-", "d", "_", "e">>

Near == <<"a", "b", "c", "d">>

Partial == <<"a", "b">>

\* Sheet names of an embedded workbook.
CoverPageDraft == <<"c", "o", "v", "e", "r", " ", "p", "a", "g", "e", " ", "(", "d", "r", "a", "f", "t", ")">>

AllSheets ==
    <<CoverPage, GeneralDetails, BusinessScenarios, DataRequirement, Architecture,
      LogsContacts>>

SheetsWithoutArchitecture ==
    <<CoverPage, GeneralDetails, BusinessScenarios, DataRequirement, LogsContacts>>

\* PLT status texts.
StatusComplete == <<"C", "o", "m", "p", "l", "e", "t", "e">>

StatusFailed == <<"F", "a", "i", "l", "e", "d">>

StatusIncomplete == <<"I", "n", "c", "o", "m", "p", "l", "e", "t", "e">>

StatusInProgress == <<"I", "n", " ", "P", "r", "o", "g", "r", "e", "s", "s">>

\* What varies in the input: the extracted values and the reference values.
\* The checkers take any dicts; what the extractors produce is among them.
\* Every item has the value of a fully compliant document first and the
\* value of a blank document last.
ItemDomain(item) ==
    CASE item \in {"doc_business_app_id", "doc_enterprise_release_id",
                   "doc_project_name", "doc_task_id"} -> <<Ref, Near, Partial, None>>
      [] item = "footer" -> <<Ref, Noisy, Partial, None>>
      [] item \in {"excel_business_app_id", "excel_enterprise_release_id",
                   "excel_project_name", "excel_task_id"}
            -> << <<Ref>>, <<Partial, Ref>>, <<None>>, <<>> >>
      [] item = "excel_end_date" -> << <<"8/11/2025">>, <<>> >>
      [] item \in {"has_toc", "has_scope", "has_milestones", "has_content",
                   "has_architecture"} -> <<TRUE, FALSE>>
      [] item = "embedded"
            -> <<[has |-> TRUE, names |-> AllSheets],
                 [has |-> TRUE, names |-> SheetsWithoutArchitecture],
                 [has |-> TRUE, names |-> <<CoverPageDraft>>],
                 [has |-> TRUE, names |-> <<>>],
                 [has |-> FALSE, names |-> <<>>]>>
      [] item = "implementation_dates" -> << <<"8/11/2025">>, <<>> >>
      [] item = "milestone_slides" -> << <<2>>, <<>> >>
      [] item = "plt_status"
            -> <<StatusComplete, StatusFailed, StatusIncomplete, StatusInProgress,
                 <<>>, None>>
      [] item = "slide_count" -> <<10, 5, 3, 1>>
      [] item = "none_section"
            -> <<"no section", "first_page_data", "first_slide_data", "footer_data",
                 "table_of_contents", "embedded_excel", "milestones", "plt_status",
                 "document">>

Items ==
    {"doc_business_app_id", "doc_enterprise_release_id", "doc_project_name",
     "doc_task_id", "footer", "excel_business_app_id", "excel_enterprise_release_id",
     "excel_project_name", "excel_task_id", "excel_end_date", "has_toc", "has_scope",
     "has_milestones", "has_content", "has_architecture", "embedded",
     "implementation_dates",
     "milestone_slides", "plt_status", "slide_count", "none_section"}

\* In how many items an input differs from a fully compliant or from a
\* blank document.
MaxChanges == 1

Compliant == [item \in Items |-> ItemDomain(item)[1]]

Blank ==
    [item \in Items |->
        IF item = "none_section" THEN "no section"
        ELSE ItemDomain(item)[Len(ItemDomain(item))]]

\* The inputs that differ from `in` in at most one item.
Changes1(in) ==
    UNION {{[in EXCEPT ![item] = ItemDomain(item)[j]] : j \in 1..Len(ItemDomain(item))} :
              item \in Items}

RECURSIVE Ball(_, _)
Ball(center, k) ==
    IF k = 0 THEN {center} ELSE UNION {Changes1(in) : in \in Ball(center, k - 1)}

Inputs == Ball(Compliant, MaxChanges) \cup Ball(Blank, MaxChanges)

\* The section `name` of document_data.
Section(in, name, d) == IF in.none_section = name THEN NoneSection ELSE d

FirstPageData(in) ==
    [business_app_id |-> in.doc_business_app_id,
     enterprise_release_id |-> in.doc_enterprise_release_id,
     project_name |-> in.doc_project_name,
     task_id |-> in.doc_task_id]

EmbeddedExcel(in) ==
    IF in.embedded.has
    THEN [has_embedded_excel |-> TRUE, embedded_excel_count |-> 1,
          worksheet_names |-> in.embedded.names,
          worksheet_count |-> Len(in.embedded.names),
          has_architecture_sheet |-> in.has_architecture]
    ELSE [has_embedded_excel |-> FALSE, embedded_excel_count |-> 0]

\* The dict the DOCX extractor returns ({} when the analysis failed).
DocxDocument(in) ==
    IF in.none_section = "document" THEN EmptyDict
    ELSE [first_page_data |-> Section(in, "first_page_data", FirstPageData(in)),
          footer_data |-> Section(in, "footer_data",
                                  [project_name_in_footer |-> in.footer]),
          table_of_contents |-> Section(in, "table_of_contents",
                                   [has_table_of_contents |-> in.has_toc,
                                    has_scope_section |-> in.has_scope]),
          embedded_excel |-> Section(in, "embedded_excel", EmbeddedExcel(in)),
          milestones |-> Section(in, "milestones",
                            [has_milestones_section |-> in.has_milestones,
                             implementation_dates |-> in.implementation_dates])]

\* The dict the PPTX extractor returns ({} when the analysis failed).
PptxDocument(in) ==
    IF in.none_section = "document" THEN EmptyDict
    ELSE [slide_count |-> in.slide_count,
          first_slide_data |-> Section(in, "first_slide_data",
                                  FirstPageData(in) @@ [has_content |-> in.has_content]),
          embedded_excel |-> Section(in, "embedded_excel", EmbeddedExcel(in)),
          milestones |-> Section(in, "milestones",
                            [has_milestones_section |-> in.has_milestones,
                             milestone_slides |-> in.milestone_slides,
                             implementation_dates |-> in.implementation_dates]),
          plt_status |-> Section(in, "plt_status",
                            [has_plt_status |-> in.plt_status # None,
                             plt_status |-> in.plt_status,
                             plt_slides |-> IF in.plt_status # None THEN <<1>> ELSE <<>>])]

\* The reference record: field name -> candidate values; a field without
\* candidates has no key.
ReferenceRecord(in) ==
    LET lists == [f \in {"business_app_id", "enterprise_release_id", "project_name",
                         "task_id", "end_date"} |-> in["excel_" \o f]]
    IN  [f \in {g \in DOMAIN lists : lists[g] # <<>>} |-> lists[f]]

CatalogInit ==
    /\ kind \in {"docx", "pptx"}
    /\ \E in \in Inputs :
          /\ document_data = IF kind = "docx" THEN DocxDocument(in) ELSE PptxDocument(in)
          /\ excel_data = ReferenceRecord(in)
    /\ cat_results = <<>>
    /\ cat_report = NoReport
    /\ cat_pc = "checks"
    /\ EngineIdle
    /\ SimIdle
    /\ AggIdle
    /\ FirstPageIdle
    /\ ExtIdle

\* `results = [check_func() for check_func in check_functions]`, one call.
CallCheck ==
    /\ cat_pc = "checks"
    /\ cat_results' = Append(cat_results,
           CatalogCheck(kind, Len(cat_results) + 1, document_data, excel_data))
    /\ cat_pc' = IF Len(cat_results) + 1 = CatalogSize THEN "aggregate" ELSE cat_pc
    /\ UNCHANGED <<kind, document_data, excel_data, cat_report, engine_vars, ext_vars, sim_vars,
                   agg_vars, fp_vars>>

\* Overall statistics, legacy conversion and return.
CatalogAggregate ==
    /\ cat_pc = "aggregate"
    /\ cat_report' = BuildReport(cat_results, FALSE, 1)
    /\ cat_pc' = "done"
    /\ UNCHANGED <<kind, document_data, excel_data, cat_results, engine_vars, ext_vars, sim_vars,
                   agg_vars, fp_vars>>

CatalogNext == CallCheck \/ CatalogAggregate

SpecCatalog == CatalogInit /\ [][CatalogNext]_vars


\* 0.0 <= x <= 1.0
InUnitInterval(x) == FGeq(x, FZero) /\ FGeq(FOne, x)

\* C7: the score of every check result of the two catalogs lies in [0, 1] for
\* any document data and reference data, and so does overall_score.
C7ScoresInUnitInterval ==
    /\ \A i \in 1..Len(cat_results) : InUnitInterval(cat_results[i].score)
    /\ cat_pc = "done" =>
          InUnitInterval(cat_report.overall_statistics.overall_score)

\* The milestones check of the DOCX catalog found dates in the document and
\* an end date in the reference data, so that its score went through the
\* cap, and the report is complete.
C7Witness ==
    /\ cat_pc = "done"
    /\ kind = "docx"
    /\ Len(cat_results) = CatalogSize
    /\ "milestones" \in DOMAIN document_data
    /\ ~IsNoneSection(document_data.milestones)
    /\ document_data.milestones.has_milestones_section
    /\ document_data.milestones.implementation_dates # <<>>
    /\ Available(excel_data, "end_date")
    /\ cat_results[5].score = FOne
    /\ InUnitInterval(cat_report.overall_statistics.overall_score)

-----------------------------------------------------------------------------
(* The first page check on its own: _check_first_page_compliance of        *)
(* src/docx_compliance.py or of                                            *)
(* src/smart_compliance_checker_complete_Version2.py, called once.         *)

\* First page values and reference values for the check of
\* src/docx_compliance.py; everything else is as in a compliant document.
FirstPageInputs ==
    {[item \in Items |->
         IF item \in DOMAIN d THEN d[item]
         ELSE IF item \in DOMAIN e THEN e[item]
         ELSE IF item = "none_section" THEN n
         ELSE Compliant[item]] :
        d \in [{"doc_business_app_id", "doc_enterprise_release_id", "doc_project_name",
                "doc_task_id"} -> {Ref, Near, Partial, None}],
        e \in [{"excel_business_app_id", "excel_enterprise_release_id",
                "excel_project_name", "excel_task_id"} -> {<<Ref>>, <<>>}],
        n \in {"no section", "first_page_data"}}

\* Values of the six fields of the second checker: the reference value, a
\* spelling of it that differs in case or surrounding whitespace, and
\* another value.
V2Expected ==
    [business_application |->
         <<"P", "a", "y">>,
     business_app_id |->
         <<"1", "2", "3", "4", "5", "6", "7", "8">>,
     clarity_project_id |->
         <<"P", "R", "J", "0", "1", "2", "3", "4">>,
     project_name |->
         <<"A", "p", "o", "l", "l", "o">>,
     release |->
         <<"R", "L", "S", "E", "0", "0", "3", "1", "1", "1", "5">>,
     enterprise_release_id |->
         <<"2", "0", "2", "5", ".", "M", "0", "8">>]

V2Variant ==
    [business_application |->
         <<"p", "a", "y", " ">>,
     business_app_id |->
         <<" ", "1", "2", "3", "4", "5", "6", "7", "8">>,
     clarity_project_id |->
         <<"p", "r", "j", "0", "1", "2", "3", "4">>,
     project_name |->
         <<"A", "P", "O", "L", "L", "O">>,
     release |->
         <<"r", "l", "s", "e", "0", "0", "3", "1", "1", "1", "5">>,
     enterprise_release_id |->
         <<"2", "0", "2", "5", ".", "m", "0", "8">>]

V2Other ==
    [business_application |->
         <<"P", "a", "d">>,
     business_app_id |->
         <<"1", "2", "3", "4", "5", "6", "7", "9">>,
     clarity_project_id |->
         <<"P", "R", "J", "0", "1", "2", "3", "5">>,
     project_name |->
         <<"G", "e", "m", "i", "n", "i">>,
     release |->
         <<"R", "L", "S", "E", "0", "0", "3", "1", "1", "1", "6">>,
     enterprise_release_id |->
         <<"2", "0", "2", "5", ".", "M", "0", "9">>]

\* Values of the identifier fields that are not of the field's format; the
\* reference record and the document may both hold one.
V2Malformed ==
    [business_app_id |->
         <<"A", "P", "P", "1", "2">>,
     clarity_project_id |->
         <<"P", "R", "J", "1", "2">>,
     release |->
         <<"R", "L", "S", "E", "1", "2">>]

\* What a field may be: as in the reference, in the other spelling,
\* different, not found in the document, without a reference value, or
\* the same ill-formed value in the reference and in the document.
FieldCases ==
    {"match", "variant", "mismatch", "missing_document", "missing_excel", "malformed"}

V2Inputs ==
    {c \in [DOMAIN V2Expected -> FieldCases] :
        \A f \in DOMAIN c : c[f] = "malformed" => f \in DOMAIN V2Malformed}

\* excel_data as the application builds it: one-element lists.
V2ExcelData(c) ==
    [f \in DOMAIN V2Expected \cup {"install_start_date"} |->
        IF f \notin DOMAIN V2Expected \/ c[f] = "missing_excel" THEN <<None>>
        ELSE IF c[f] = "malformed" THEN <<V2Malformed[f]>>
        ELSE <<V2Expected[f]>>]

V2FirstPageData(c) ==
    [d \in {field_mappings[i][2] : i \in 1..Len(field_mappings)} |->
        LET f == field_mappings[CHOOSE i \in 1..Len(field_mappings) :
                                    field_mappings[i][2] = d][1]
        IN  CASE c[f] \in {"match", "missing_excel"} -> V2Expected[f]
              [] c[f] = "variant" -> V2Variant[f]
              [] c[f] = "mismatch" -> V2Other[f]
              [] c[f] = "malformed" -> V2Malformed[f]
              [] c[f] = "missing_document" -> None]

FirstPageInit ==
    /\ \/ /\ fp_impl = "docx_compliance"
          /\ \E in \in FirstPageInputs :
                /\ fp_document_data = DocxDocument(in)
                /\ fp_excel_data = ReferenceRecord(in)
       \/ /\ fp_impl = "Version2"
          /\ \E c \in V2Inputs :
                /\ fp_document_data = [first_page_data |-> V2FirstPageData(c)]
                /\ fp_excel_data = V2ExcelData(c)
       \/ /\ fp_impl = "Version2"
          /\ fp_document_data = [first_page_data |-> NoneSection]
          /\ fp_excel_data = V2ExcelData([f \in DOMAIN V2Expected |-> "match"])
    /\ fp_result = NoReport
    /\ fp_pc = "call"
    /\ EngineIdle
    /\ SimIdle
    /\ AggIdle
    /\ CatalogIdle
    /\ ExtIdle

\* _check_first_page_compliance of src/docx_compliance.py.
DocxFirstPage ==
    /\ fp_pc = "call"
    /\ fp_impl = "docx_compliance"
    /\ fp_result' = Docx_check_first_page_compliance(fp_document_data, fp_excel_data)
    /\ fp_pc' = "done"
    /\ UNCHANGED <<fp_impl, fp_document_data, fp_excel_data, engine_vars, ext_vars, sim_vars,
                   agg_vars, cat_vars>>

\* _check_first_page_compliance of the second checker.
V2FirstPage ==
    /\ fp_pc = "call"
    /\ fp_impl = "Version2"
    /\ fp_result' = V2_check_first_page_compliance(fp_document_data, fp_excel_data)
    /\ fp_pc' = "done"
    /\ UNCHANGED <<fp_impl, fp_document_data, fp_excel_data, engine_vars, ext_vars, sim_vars,
                   agg_vars, cat_vars>>

FirstPageNext == DocxFirstPage \/ V2FirstPage

SpecFirstPage == FirstPageInit /\ [][FirstPageNext]_vars

\* The fields the check went through, in order: whether each matched, and
\* its score.
FieldOutcomes ==
    IF fp_impl = "Version2"
    THEN [i \in 1..Len(field_mappings) |->
             [matched |-> fp_result.sub_results[field_mappings[i][3]].match,
              score |-> IF fp_result.sub_results[field_mappings[i][3]].match
                        THEN FOne ELSE FZero]]
    ELSE LET field_checks == FieldChecks(fp_document_data.first_page_data, fp_excel_data)
         IN  [i \in 1..Len(field_checks) |->
                 [matched |-> field_checks[i].passed, score |-> field_checks[i].score]]

\* The check went through its fields and at least one field was checked.
FieldsChecked ==
    /\ fp_pc = "done"
    /\ ~IsNoneSection(fp_document_data.first_page_data)
    /\ FieldOutcomes # <<>>

\* C8: the first page check scores the mean of the per-field scores and
\* passes iff all checked fields matched; with 3 of 4 fields matching
\* exactly and 1 failing entirely the score is 0.75 and passed is false.
C8MeanScoreAllMatched ==
    FieldsChecked =>
        LET n == Len(FieldOutcomes)
        IN  /\ fp_result.score = FDivInt(SumScores(FieldOutcomes, n), n)
            /\ fp_result.passed <=> \A i \in 1..n : FieldOutcomes[i].matched
            /\ (/\ n = 4
                /\ Cardinality({i \in 1..n : FieldOutcomes[i].score = FOne}) = 3
                /\ Cardinality({i \in 1..n : FieldOutcomes[i].score = FZero}) = 1)
                  => fp_result.score = FromRatio(75, 100) /\ ~fp_result.passed

\* The format pattern of an identifier-class field, on a stripped value.
IdentifierFormat ==
    [release |-> "RLSE+7 digits", business_app_id |-> "8 digits",
     clarity_project_id |-> "PRJ0+4 digits"]

SatisfiesFormat(field, s) ==
    CASE field = "release" -> MatchesRelease(s)
      [] field = "business_app_id" -> MatchesApplicationId(s)
      [] field = "clarity_project_id" -> MatchesProjectId(s)

\* The identifier-class mappings of the second checker whose field has
\* both a reference value and a document value.
ComparedIdentifiers ==
    {i \in 1..Len(field_mappings) :
        /\ field_mappings[i][1] \in DOMAIN IdentifierFormat
        /\ ~Falsy(fp_excel_data[field_mappings[i][1]][1])
        /\ ~Falsy(DictGet(fp_document_data.first_page_data, field_mappings[i][2], None))}

\* C20: for identifier-class fields a document value is accepted as matching
\* the reference value only if it satisfies the field's format pattern and
\* is case-insensitively equal to the reference value; equality alone, with
\* a value that violates the format, is not a match.
C20FormatBeforeEquality ==
    (/\ fp_pc = "done"
     /\ fp_impl = "Version2"
     /\ ~IsNoneSection(fp_document_data.first_page_data)) =>
        \A i \in ComparedIdentifiers :
            LET excel_value == Strip(fp_excel_data[field_mappings[i][1]][1])
                doc_value == Strip(fp_document_data.first_page_data[field_mappings[i][2]])
            IN  fp_result.sub_results[field_mappings[i][3]].match =>
                    /\ SatisfiesFormat(field_mappings[i][1], doc_value)
                    /\ Lower(excel_value) = Lower(doc_value)

-----------------------------------------------------------------------------
(* The matcher on its own: one call of _vectorized_text_match, or of       *)
(* _check_field_compliance, which calls it with the default threshold.     *)

\* Longest list of candidates.
MaxCandidates == 3

\* Candidate values: strings, the empty string and None.
CandidatePool == {Ref, Noisy, Near, Partial, <<>>, None}

\* Targets (document values).
TargetPool == {Ref, Near, Partial, <<>>, None}

\* Thresholds a caller passes; the first is the default.
Thresholds == {MatchThreshold, FromRatio(1, 2)}

MatchInit ==
    /\ match_call \in {"_vectorized_text_match", "_check_field_compliance"}
    /\ match_target \in TargetPool
    /\ match_candidates \in UNION {[1..n -> CandidatePool] : n \in 0..MaxCandidates}
    /\ match_threshold \in
          IF match_call = "_check_field_compliance" THEN {MatchThreshold} ELSE Thresholds
    /\ match_result = NoReport
    /\ match_pc = "call"
    /\ DateIdle
    /\ SlidesIdle
    /\ AnalyzerIdle
    /\ CheckIdle
    /\ FlowIdle
    /\ EngineIdle
    /\ SimIdle
    /\ AggIdle
    /\ CatalogIdle
    /\ FirstPageIdle

VectorizedTextMatch ==
    /\ match_pc = "call"
    /\ match_call = "_vectorized_text_match"
    /\ match_result' =
          _vectorized_text_match(match_target, match_candidates, match_threshold)
    /\ match_pc' = "done"
    /\ UNCHANGED <<match_call, match_target, match_candidates, match_threshold,
                   date_vars, slide_vars, an_vars, chk_vars, engine_vars, base_vars,
                   flow_vars>>

CheckFieldCompliance ==
    /\ match_pc = "call"
    /\ match_call = "_check_field_compliance"
    /\ match_result' =
          _check_field_compliance(<<"f">>, match_target, match_candidates)
    /\ match_pc' = "done"
    /\ UNCHANGED <<match_call, match_target, match_candidates, match_threshold,
                   date_vars, slide_vars, an_vars, chk_vars, engine_vars, base_vars,
                   flow_vars>>

MatchNext == VectorizedTextMatch \/ CheckFieldCompliance

SpecMatch == MatchInit /\ [][MatchNext]_vars

\* (is_match, score, best_match) is what the matcher owes for target tgt,
\* candidates cands and threshold thr.
IsBestMatch(tgt, cands, thr, is_match, score, best_match) ==
    IF Falsy(tgt) \/ cands = <<>>
    THEN is_match = FALSE /\ score = FZero /\ best_match = None
    ELSE \E k \in 1..Len(cands) :
            /\ score = _calculate_similarity_score(tgt, cands[k])
            /\ \A j \in 1..Len(cands) :
                  FGeq(score, _calculate_similarity_score(tgt, cands[j]))
            /\ \A j \in 1..(k - 1) :
                  _calculate_similarity_score(tgt, cands[j]) # score
            /\ best_match = cands[k]
            /\ is_match <=> FGeq(score, thr)

\* C11: the matcher returns the maximum per-candidate similarity, reports
\* a match iff that maximum is >= threshold and returns as best match the
\* first candidate in list order that achieves the maximum; an empty
\* target or an empty candidate list gives (no match, 0.0, no best match),
\* never an error.  The field check reports the same for its candidates
\* that are not None.
C11BestMatch ==
    match_pc = "done" =>
        IF match_call = "_vectorized_text_match"
        THEN /\ DOMAIN match_result = {"is_match", "score", "best_match"}
             /\ IsBestMatch(match_target, match_candidates, match_threshold,
                            match_result.is_match, match_result.score,
                            match_result.best_match)
        ELSE (~Falsy(match_target) /\ match_candidates # <<>>) =>
                IsBestMatch(match_target,
                            SelectSeq(match_candidates, LAMBDA val : val # None),
                            MatchThreshold, match_result.passed, match_result.score,
                            match_result.details.best_match)

\* Three candidates, the last two both reach the maximum 1.0, and the
\* earlier of them is returned.
C11Witness ==
    /\ match_pc = "done"
    /\ match_call = "_vectorized_text_match"
    /\ match_target = Ref
    /\ match_candidates = <<Partial, Noisy, Ref>>
    /\ match_result.is_match
    /\ match_result.best_match = Noisy

-----------------------------------------------------------------------------
(* normalize_date of smart_compliance_checker_complete_Version2.py.        *)

\* The digits as they are written.
KeepDigits(ds) == ds

\* str(int(ds)) for a string of one or two digits: no leading zero.
IntStr(ds) == IF Len(ds) = 2 /\ ds[1] = "0" THEN <<ds[2]>> ELSE ds

\* re.match(r'(\d{1,2})/(\d{1,2})/(\d{4})', s): the lengths of the month
\* and day groups of the match at the start of s, if there is one.
DateGroups(s) ==
    {g \in {1, 2} \X {1, 2} :
        /\ Len(s) >= g[1] + g[2] + 6
        /\ AllDigits(SubSeq(s, 1, g[1]))
        /\ s[g[1] + 1] = "/"
        /\ AllDigits(SubSeq(s, g[1] + 2, g[1] + g[2] + 1))
        /\ s[g[1] + g[2] + 2] = "/"
        /\ AllDigits(SubSeq(s, g[1] + g[2] + 3, g[1] + g[2] + 6))}

normalize_date(date_string) ==
    IF Falsy(date_string) THEN date_string
    ELSE LET Formatted(s, g) ==
                 IntStr(SubSeq(s, 1, g[1])) \o <<"/">>
                    \o IntStr(SubSeq(s, g[1] + 2, g[1] + g[2] + 1)) \o <<"/">>
                    \o SubSeq(s, g[1] + g[2] + 3, g[1] + g[2] + 6)
             Matched(s) ==
                 IF DateGroups(s) # {} THEN Formatted(s, CHOOSE g \in DateGroups(s) : TRUE)
                 ELSE s
         IN  Matched(Strip(date_string))

\* Most spaces on either side of a date string.
MaxPad == 1

Spaces(n) == [i \in 1..n |-> " "]

Months == {<<"8">>, <<"0", "8">>, <<"1", "1">>, <<"0", "0">>, <<"0">>,
           <<"1", "2", "3">>, <<"x", "8">>}

Days == {<<"1">>, <<"0", "1">>, <<"1", "1">>, <<"3", "1">>}

Years == {<<"2", "0", "2", "5">>, <<"0", "0", "2", "5">>, <<"2", "0", "2", "5", "5">>,
          <<"0", "2", "5">>}

DateSeparators == {"/", "-"}

\* What may follow the year.
Trailers == {<<>>, <<" ", "1", "0", ":", "0", "0">>, <<"x">>}

DateStrings ==
    {Spaces(l) \o m \o <<s1>> \o d \o <<s2>> \o y \o t \o Spaces(r) :
        l \in 0..MaxPad, r \in 0..MaxPad, m \in Months, d \in Days, y \in Years,
        s1 \in DateSeparators, s2 \in DateSeparators, t \in Trailers}

DateInit ==
    /\ date_str \in DateStrings \cup {None, <<>>}
    /\ date_once = None
    /\ date_twice = None
    /\ date_pc = "call"
    /\ MatchIdle
    /\ SlidesIdle
    /\ AnalyzerIdle
    /\ CheckIdle
    /\ FlowIdle
    /\ EngineIdle
    /\ SimIdle
    /\ AggIdle
    /\ CatalogIdle
    /\ FirstPageIdle

NormalizeDate ==
    /\ date_pc = "call"
    /\ date_once' = normalize_date(date_str)
    /\ date_pc' = "again"
    /\ UNCHANGED <<date_str, date_twice, match_vars, slide_vars, an_vars, chk_vars,
                   engine_vars, base_vars,
                   flow_vars>>

\* normalize_date applied to what it returned.
NormalizeDateAgain ==
    /\ date_pc = "again"
    /\ date_twice' = normalize_date(date_once)
    /\ date_pc' = "done"
    /\ UNCHANGED <<date_str, date_once, match_vars, slide_vars, an_vars, chk_vars,
                   engine_vars, base_vars,
                   flow_vars>>

DateNext == NormalizeDate \/ NormalizeDateAgain

SpecDate == DateInit /\ [][DateNext]_vars

\* C12: normalize_date is idempotent, and it strips the leading zeros of
\* month and day only: 08/11/2025 gives 8/11/2025, 8/1/2025 stays 8/1/2025
\* and the zeros of a year are kept.
C12DateIdempotent ==
    /\ date_pc = "done" => date_twice = date_once
    /\ date_pc # "call" =>
          /\ date_str = <<"0", "8", "/", "1", "1", "/", "2", "0", "2", "5">>
                => date_once = <<"8", "/", "1", "1", "/", "2", "0", "2", "5">>
          /\ date_str = <<"8", "/", "1", "/", "2", "0", "2", "5">>
                => date_once = <<"8", "/", "1", "/", "2", "0", "2", "5">>
          /\ date_str = <<"0", "8", "/", "0", "1", "/", "0", "0", "2", "5">>
                => date_once = <<"8", "/", "1", "/", "0", "0", "2", "5">>

\* A padded date with leading zeros and a trailer was normalized twice.
C12Witness ==
    /\ date_pc = "done"
    /\ date_str = <<" ", "0", "8", "/", "0", "1", "/", "2", "0", "2", "5", "x", " ">>
    /\ date_once = <<"8", "/", "1", "/", "2", "0", "2", "5">>
    /\ date_twice = date_once

-----------------------------------------------------------------------------
(* The slide list of ppt_analyzer.py: _get_slide_list and _get_slide_text. *)

StartsWith(s, prefix) ==
    Len(s) >= Len(prefix) /\ SubSeq(s, 1, Len(prefix)) = prefix

EndsWith(s, suffix) ==
    Len(s) >= Len(suffix) /\ SubSeq(s, Len(s) - Len(suffix) + 1, Len(s)) = suffix

SlidePrefix == <<"p", "p", "t", "/", "s", "l", "i", "d", "e", "s", "/", "s", "l", "i", "d", "e">>

XmlSuffix == <<".", "x", "m", "l">>

\* Positions of x where 'slide' is followed by a digit.
SlideMatches(x) ==
    {i \in 1..Len(x) :
        /\ i + 5 <= Len(x)
        /\ SubSeq(x, i, i + 4) = <<"s", "l", "i", "d", "e">>
        /\ x[i + 5] \in Digits}

\* The digits of x from position i on.
RECURSIVE DigitRun(_, _)
DigitRun(x, i) ==
    IF i <= Len(x) /\ x[i] \in Digits THEN <<x[i]>> \o DigitRun(x, i + 1) ELSE <<>>

DigitValue(c) == CHOOSE v \in 0..9 : <<"0", "1", "2", "3", "4", "5", "6", "7", "8", "9">>[v + 1] = c

\* int() of a string of digits.
RECURSIVE IntOf(_)
IntOf(ds) ==
    IF ds = <<>> THEN 0
    ELSE 10 * IntOf(SubSeq(ds, 1, Len(ds) - 1)) + DigitValue(ds[Len(ds)])

\* re.search(r'slide(\d+)', x) is None
NoSlideNumber(x) == SlideMatches(x) = {}

\* int(re.search(r'slide(\d+)', x).group(1))
SlideNumber(x) ==
    LET first == CHOOSE i \in SlideMatches(x) : \A j \in SlideMatches(x) : i <= j
    IN  IntOf(DigitRun(x, first + 5))

\* The list as it is, not sorted.
Unsorted(files) == files

\* list.sort(key=...): ascending by slide number, equal keys in the order
\* they had.
RECURSIVE SortBySlideNumber(_)
SortBySlideNumber(files) ==
    IF files = <<>> THEN <<>>
    ELSE LET rest == SubSeq(files, 1, Len(files) - 1)
             last == files[Len(files)]
             Insert(sorted) ==
                 SelectSeq(sorted, LAMBDA f : SlideNumber(f) <= SlideNumber(last))
                    \o <<last>>
                    \o SelectSeq(sorted, LAMBDA f : SlideNumber(f) > SlideNumber(last))
         IN  Insert(SortBySlideNumber(rest))

\* The slide_files comprehension over namelist().
SlideFiles(names) ==
    SelectSeq(names, LAMBDA f : StartsWith(f, SlidePrefix) /\ EndsWith(f, XmlSuffix))

\* The AttributeError of None.group(1) is caught and [] is returned.
_get_slide_list(names) ==
    IF \E i \in 1..Len(SlideFiles(names)) : NoSlideNumber(SlideFiles(names)[i])
    THEN <<>>
    ELSE SortBySlideNumber(SlideFiles(names))

\* The part _get_slide_text reads for a slide number; None where it
\* returns "" without reading.
_get_slide_text(files, number) ==
    IF number <= 0 \/ number > Len(files) THEN None ELSE files[number]

\* Most parts in an archive.
MaxParts == 3

SlidePart(digits) == SlidePrefix \o digits \o XmlSuffix

Slide1 == SlidePart(<<"1">>)

Slide2 == SlidePart(<<"2">>)

Slide10 == SlidePart(<<"1", "0">>)

\* A part among the slides whose name carries no number.
SlideX == SlidePart(<<"X">>)

\* Parts that are no slides.
PresentationPart == <<"p", "p", "t", "/", "p", "r", "e", "s", "e", "n", "t", "a", "t", "i", "o", "n">>
                        \o XmlSuffix

SlideRelsPart == <<"p", "p", "t", "/", "s", "l", "i", "d", "e", "s", "/", "_", "r", "e", "l", "s", "/",
                   "s", "l", "i", "d", "e", "1">> \o XmlSuffix \o <<".", "r", "e", "l", "s">>

PartNames == {Slide1, Slide2, Slide10, SlideX, PresentationPart, SlideRelsPart}

\* The name lists of archives: every part is listed once.
NameLists ==
    UNION {{q \in [1..n -> PartNames] : \A i, j \in 1..n : q[i] = q[j] => i = j} :
              n \in 0..MaxParts}

SlidesInit ==
    /\ namelist \in NameLists
    /\ slide_number \in 0..(MaxParts + 1)
    /\ slide_files = <<>>
    /\ slide_part = None
    /\ slide_pc = "list"
    /\ MatchIdle
    /\ DateIdle
    /\ AnalyzerIdle
    /\ CheckIdle
    /\ FlowIdle
    /\ EngineIdle
    /\ SimIdle
    /\ AggIdle
    /\ CatalogIdle
    /\ FirstPageIdle

GetSlideList ==
    /\ slide_pc = "list"
    /\ slide_files' = _get_slide_list(namelist)
    /\ slide_pc' = "text"
    /\ UNCHANGED <<namelist, slide_number, slide_part, match_vars, date_vars, an_vars,
                   chk_vars, engine_vars, base_vars,
                   flow_vars>>

GetSlideText ==
    /\ slide_pc = "text"
    /\ slide_part' = _get_slide_text(slide_files, slide_number)
    /\ slide_pc' = "done"
    /\ UNCHANGED <<namelist, slide_number, slide_files, match_vars, date_vars, an_vars,
                   chk_vars, engine_vars, base_vars,
                   flow_vars>>

SlidesNext == GetSlideList \/ GetSlideText

SpecSlides == SlidesInit /\ [][SlidesNext]_vars

\* The numeric index in the path of a part, read off the pool of names.
IndexOf(part) ==
    IF part = Slide1 THEN 1 ELSE IF part = Slide2 THEN 2 ELSE IF part = Slide10 THEN 10 ELSE 0

\* The slide parts among the names, as a set.
SlidePartsOf(names) == {names[i] : i \in {j \in 1..Len(names) : IndexOf(names[j]) > 0}}

\* Every part among the slides carries a number.
AllNumbered(names) == \A i \in 1..Len(names) : names[i] # SlideX

\* C13: the slide parts are ordered ascending by the numeric index in their
\* path whatever the order the archive lists them in; [slide10, slide2,
\* slide1] gives [1, 2, 10]; slide number n is the part with the n-th
\* smallest index.
C13SlidesAscending ==
    (slide_pc # "list" /\ AllNumbered(namelist)) =>
        /\ Len(slide_files) = Cardinality(SlidePartsOf(namelist))
        /\ {slide_files[i] : i \in 1..Len(slide_files)} = SlidePartsOf(namelist)
        /\ \A i, j \in 1..Len(slide_files) :
              i < j => IndexOf(slide_files[i]) < IndexOf(slide_files[j])
        /\ namelist = <<Slide10, Slide2, Slide1>>
              => slide_files = <<Slide1, Slide2, Slide10>>
        /\ (slide_pc = "done" /\ slide_number \in 1..Len(slide_files)) =>
              /\ slide_part \in SlidePartsOf(namelist)
              /\ Cardinality({f \in SlidePartsOf(namelist) :
                                 IndexOf(f) < IndexOf(slide_part)}) = slide_number - 1

\* The archive lists slide10, slide2, slide1 and slide 3 was read.
C13Witness ==
    /\ slide_pc = "done"
    /\ namelist = <<Slide10, Slide2, Slide1>>
    /\ slide_number = 3
    /\ slide_part = Slide10

\* C15: a slide part whose name carries no numeric index is skipped: the
\* correctly named slide parts are still listed, in ascending order.
C15UnrecognizedPartSkipped ==
    slide_pc # "list" =>
        /\ {slide_files[i] : i \in 1..Len(slide_files)} = SlidePartsOf(namelist)
        /\ \A i, j \in 1..Len(slide_files) :
              i < j => IndexOf(slide_files[i]) < IndexOf(slide_files[j])

-----------------------------------------------------------------------------
(* The analyzers: analyze() of base_analyzer.py over the DOCX and PPTX     *)
(* analyze_content, and analyze() of the Version2 DOCX analyzer.  The      *)
(* input bytes are taken as the container they encode: whether they are a  *)
(* zip archive, the parts it lists and what its text extracts to.          *)

\* Most calls of analyze() on one analyzer.
MaxCalls == 2

DocumentPart == <<"w", "o", "r", "d", "/", "d", "o", "c", "u", "m", "e", "n", "t">> \o XmlSuffix

AnalysisResult(success, data, file_hash, errors) ==
    [success |-> success, data |-> data, file_hash |-> file_hash, errors |-> errors]

\* hashlib.md5(content).hexdigest(): one digest per content.
_get_file_hash(container) == container

HasPart(container, part) ==
    container.zip /\ \E i \in 1..Len(container.names) : container.names[i] = part

\* analyze_content of OptimizedDocxAnalyzer: the dict it returns, or the
\* ValueError it raises when _extract_xml_content gave no document XML.
Docx_analyze_content(container) ==
    IF ~HasPart(container, DocumentPart)
    THEN Raises("Could not extract document content")
    ELSE Returns(DocxDocument(container.content))

\* analyze_content of OptimizedPowerPointAnalyzer.
Pptx_analyze_content(container) ==
    LET slide_list == IF container.zip THEN _get_slide_list(container.names) ELSE <<>>
    IN  IF slide_list = <<>>
        THEN Raises("No slides found in PPTX file")
        ELSE Returns([PptxDocument(container.content) EXCEPT
                         !.slide_count = Len(slide_list)])

analyze_content(impl, container) ==
    IF impl = "docx_analyzer" THEN Docx_analyze_content(container)
    ELSE Pptx_analyze_content(container)

_perform_analysis(impl, container) ==
    LET Result(outcome) ==
            IF outcome.kind = "raise"
            THEN AnalysisResult(FALSE, EmptyDict, _get_file_hash(container),
                                <<"Analysis failed: " \o outcome.value>>)
            ELSE AnalysisResult(TRUE, outcome.value, _get_file_hash(container), <<>>)
    IN  Result(analyze_content(impl, container))

\* A cache hit that has lost its data.
EmptyOnHit(cache, impl, container, file_hash) ==
    IF file_hash \in DOMAIN cache
    THEN AnalysisResult(cache[file_hash].success, EmptyDict, file_hash, <<>>)
    ELSE _perform_analysis(impl, container)

\* lru_cache: the stored result on a hit, the computed one on a miss.
_cached_analyze(cache, impl, container, file_hash) ==
    IF file_hash \in DOMAIN cache THEN cache[file_hash]
    ELSE _perform_analysis(impl, container)

\* analyze() of the Version2 OptimizedDocxAnalyzer: Document() raises on
\* bytes that are no package with a main part, and the except branch
\* returns the message in a dict.
V2_analyze(container) ==
    IF ~HasPart(container, DocumentPart)
    THEN [error |-> "Package not found"]
    ELSE [first_page_data |-> V2FirstPageData([f \in DOMAIN V2Expected |-> "match"])]

Containers(impl) ==
    [zip : BOOLEAN,
     names : IF impl = "ppt_analyzer"
             THEN {<<>>, <<PresentationPart>>, <<Slide2, Slide1>>, <<Slide1, SlideX>>}
             ELSE {<<>>, <<PresentationPart>>, <<DocumentPart>>},
     content : {Compliant, Blank}]

AnalyzerInit ==
    /\ an_impl \in {"docx_analyzer", "ppt_analyzer", "Version2"}
    /\ an_container \in Containers(an_impl)
    /\ an_cache_enabled \in IF an_impl = "Version2" THEN {FALSE} ELSE BOOLEAN
    /\ an_cache = EmptyDict
    /\ an_outcome = NoReport
    /\ an_calls = 0
    /\ an_pc = "call"
    /\ MatchIdle
    /\ DateIdle
    /\ SlidesIdle
    /\ CheckIdle
    /\ FlowIdle
    /\ EngineIdle
    /\ SimIdle
    /\ AggIdle
    /\ CatalogIdle
    /\ FirstPageIdle

\* BaseAnalyzer.analyze() with cache_enabled.
AnalyzeCached ==
    /\ an_pc = "call"
    /\ an_impl # "Version2"
    /\ an_cache_enabled
    /\ an_calls < MaxCalls
    /\ LET file_hash == _get_file_hash(an_container)
           result == _cached_analyze(an_cache, an_impl, an_container, file_hash)
       IN  /\ an_cache' = (file_hash :> result) @@ an_cache
           /\ an_outcome' = Returns(result.data)
    /\ an_calls' = an_calls + 1
    /\ UNCHANGED <<an_impl, an_container, an_cache_enabled, an_pc, match_vars, date_vars,
                   slide_vars, chk_vars, engine_vars, base_vars,
                   flow_vars>>

\* BaseAnalyzer.analyze() without the cache.
AnalyzeUncached ==
    /\ an_pc = "call"
    /\ an_impl # "Version2"
    /\ ~an_cache_enabled
    /\ an_calls < MaxCalls
    /\ an_outcome' = Returns(_perform_analysis(an_impl, an_container).data)
    /\ an_calls' = an_calls + 1
    /\ UNCHANGED <<an_impl, an_container, an_cache_enabled, an_cache, an_pc, match_vars,
                   date_vars, slide_vars, chk_vars, engine_vars, base_vars,
                   flow_vars>>

\* analyze() of the Version2 analyzer.
AnalyzeVersion2 ==
    /\ an_pc = "call"
    /\ an_impl = "Version2"
    /\ an_calls < MaxCalls
    /\ an_outcome' = Returns(V2_analyze(an_container))
    /\ an_calls' = an_calls + 1
    /\ UNCHANGED <<an_impl, an_container, an_cache_enabled, an_cache, an_pc, match_vars,
                   date_vars, slide_vars, chk_vars, engine_vars, base_vars,
                   flow_vars>>

AnalyzerNext == AnalyzeCached \/ AnalyzeUncached \/ AnalyzeVersion2

SpecAnalyzer == AnalyzerInit /\ [][AnalyzerNext]_vars

\* The bytes are no zip archive or the archive lacks its main part (the
\* document part of a DOCX, any slide part of a PPTX).
Malformed ==
    \/ ~an_container.zip
    \/ IF an_impl = "ppt_analyzer" THEN SlideFiles(an_container.names) = <<>>
       ELSE ~HasPart(an_container, DocumentPart)

\* C14: analyze on input that is no valid zip archive, or that lacks the
\* mandatory main part, fails with an error the caller gets (an exception,
\* or an error entry in what is returned) instead of extraction data.
C14MalformedContainerFails ==
    (an_calls > 0 /\ Malformed) =>
        \/ an_outcome.kind = "raise"
        \/ "error" \in DOMAIN an_outcome.value

-----------------------------------------------------------------------------
(* The structural checks on their own: the table of contents, embedded     *)
(* Excel and milestones checks of src/docx_compliance.py,                  *)
(* src/pptx_compliance.py and                                              *)
(* src/smart_compliance_checker_complete_Version2.py, each called once on  *)
(* what its analyzer extracted.                                            *)

\* The keys of REQUIRED_TOC_SECTIONS of the second checker.
REQUIRED_TOC_SECTIONS ==
    <<"non_functional_requirement", "in_scope", "out_of_scope", "test_execution",
      "milestones">>

\* _check_table_of_contents of the second analyzer, given whether the
\* header pattern matched and which section patterns matched.
V2_check_table_of_contents(header_found, sections_found) ==
    LET found_sections == Cardinality(sections_found)
        total == Len(REQUIRED_TOC_SECTIONS)
    IN  [has_table_of_contents |-> header_found,
         \* `found_sections >= len(self.REQUIRED_TOC_SECTIONS) * 0.6`
         has_comprehensive_toc |-> found_sections * 10 >= total * 6,
         toc_compliance_percentage |->
             FMul(FromRatio(found_sections, total), FromInt(100)),
         found_sections_count |-> found_sections,
         total_sections_count |-> total,
         required_sections |->
             [section_key \in {REQUIRED_TOC_SECTIONS[i] : i \in 1..total} |->
                 [found |-> section_key \in sections_found]]]

V2_check_table_of_contents_compliance(doc, excel) ==
    LET toc_data == DictGet(doc, "table_of_contents", EmptyDict)
    IN  IF IsNoneSection(toc_data)
        THEN V2Error("Error checking table of contents: " \o NoneHasNoGet)
        ELSE LET has_toc == DictGet(toc_data, "has_table_of_contents", FALSE)
                 compliance_percentage ==
                     DictGet(toc_data, "toc_compliance_percentage", FZero)
                 Result(score) ==
                     V2ComplianceResult(has_toc /\ FGeq(score, FromRatio(6, 10)), score,
                         [has_toc |-> has_toc,
                          found_sections |-> DictGet(toc_data, "found_sections_count", 0),
                          total_sections |-> DictGet(toc_data, "total_sections_count", 0),
                          compliance_percentage |-> compliance_percentage],
                         None, None,
                         DictGet(toc_data, "required_sections", EmptyDict))
             \* `score = compliance_percentage / 100.0`
             IN  Result(FDivInt(compliance_percentage, 100))

\* re.sub(r'[^\w\s]', '', s.lower())
SheetNormalized(s) ==
    SelectSeq(Lower(s), LAMBDA c : WordChar(c) \/ c = " ")

_check_sheet_name_match(sheet_names, required_sheet) ==
    /\ sheet_names # <<>>
    /\ \/ \E i \in 1..Len(sheet_names) : Lower(sheet_names[i]) = Lower(required_sheet)
       \/ \E i \in 1..Len(sheet_names) :
             \/ Contains(SheetNormalized(sheet_names[i]), SheetNormalized(required_sheet))
             \/ Contains(SheetNormalized(required_sheet), SheetNormalized(sheet_names[i]))

\* required_sheets of the second checker and of its sheet reader.
required_sheets ==
    <<CoverPage, GeneralDetails, BusinessScenarios, DataRequirement, Architecture,
      LogsContacts>>

\* extract_sheet_names_from_embedded_excel, given the sheet names of every
\* embedded workbook.
extract_sheet_names_from_embedded_excel(workbooks) ==
    [i \in 1..Len(workbooks) |->
        [index |-> i,
         sheet_names |-> workbooks[i],
         required_sheets_found |->
             [required_sheet \in {required_sheets[j] : j \in 1..Len(required_sheets)} |->
                 _check_sheet_name_match(workbooks[i], required_sheet)],
         total_sheets |-> Len(workbooks[i])]]

_check_embedded_excel_with_sheets(workbooks) ==
    [has_embedded_excel |-> Len(workbooks) > 0,
     excel_count |-> Len(workbooks),
     excel_files_info |-> extract_sheet_names_from_embedded_excel(workbooks)]

\* `sum(1 for found in required_sheets_found.values() if found)`
FoundInFile(excel_info) ==
    LET required_sheets_found == DictGet(excel_info, "required_sheets_found", EmptyDict)
    IN  Cardinality({k \in DOMAIN required_sheets_found : required_sheets_found[k]})

\* overall_found_sheets after the first i files.
RECURSIVE OverallFoundSheets(_, _)
OverallFoundSheets(excel_files_info, i) ==
    IF i = 0 THEN 0
    ELSE LET before == OverallFoundSheets(excel_files_info, i - 1)
             found_in_this_file == FoundInFile(excel_files_info[i])
         IN  IF found_in_this_file > before THEN found_in_this_file ELSE before

V2_check_embedded_excel_compliance(doc, excel) ==
    LET embedded == DictGet(doc, "embedded_excel", EmptyDict)
    IN  IF IsNoneSection(embedded)
        THEN V2Error("Error checking embedded Excel: " \o NoneHasNoGet)
        ELSE LET has_embedded_excel == DictGet(embedded, "has_embedded_excel", FALSE)
                 excel_count == DictGet(embedded, "excel_count", 0)
                 excel_files_info == DictGet(embedded, "excel_files_info", <<>>)
                 total_required == Len(required_sheets)
                 Result(overall_found_sheets, score) ==
                     V2ComplianceResult(FGeq(score, FromRatio(6, 10)), score,
                         [excel_count |-> excel_count,
                          overall_found_sheets |-> overall_found_sheets,
                          total_required |-> total_required],
                         None, None,
                         [i \in 1..Len(excel_files_info) |->
                             [total_sheets |-> DictGet(excel_files_info[i], "total_sheets", 0),
                              sheet_names |-> DictGet(excel_files_info[i], "sheet_names", <<>>),
                              required_sheets_check |->
                                  [j \in 1..total_required |->
                                      DictGet(DictGet(excel_files_info[i],
                                                      "required_sheets_found", EmptyDict),
                                              required_sheets[j], FALSE)]]])
                 \* `score = overall_found_sheets / total_required`
                 Scored(overall_found_sheets) ==
                     Result(overall_found_sheets,
                            FromRatio(overall_found_sheets, total_required))
             IN  IF ~has_embedded_excel \/ excel_count = 0
                 THEN V2Error("No embedded Excel files found")
                 ELSE Scored(OverallFoundSheets(excel_files_info, Len(excel_files_info)))

\* _check_table_of_contents of src/docx_analyzer.py, given which patterns
\* matched.
Docx_check_table_of_contents(toc_found, scope_found) ==
    [has_table_of_contents |-> toc_found, has_scope_section |-> scope_found]

AnySheet(sheet_names) == sheet_names # <<>>

\* `any('architecture' in name.lower() for name in sheet_names)`
HasArchitectureSheet(sheet_names) ==
    \E i \in 1..Len(sheet_names) : Contains(Lower(sheet_names[i]), Lower(Architecture))

\* _analyze_embedded_excel, given the sheet names of the workbook.
_analyze_embedded_excel(sheet_names) ==
    [worksheet_names |-> sheet_names,
     worksheet_count |-> Len(sheet_names),
     has_architecture_sheet |-> HasArchitectureSheet(sheet_names)]

\* _detect_embedded_excel, given the sheet names of every embedded
\* workbook; only the first workbook is analyzed.
_detect_embedded_excel(workbooks) ==
    IF workbooks # <<>>
    THEN [has_embedded_excel |-> TRUE, embedded_excel_count |-> Len(workbooks)]
         @@ _analyze_embedded_excel(workbooks[1])
    ELSE [has_embedded_excel |-> FALSE, embedded_excel_count |-> 0]

\* _check_milestones_section, given whether the section pattern matched and
\* what the date pattern found.
_check_milestones_section(has_milestones, dates) ==
    [has_milestones_section |-> has_milestones,
     implementation_dates |-> IF has_milestones THEN dates ELSE <<>>]

\* Most embedded workbooks of a document.
MaxFiles == 2

\* The required sheets other than Architecture.
OtherSheets == <<CoverPage, GeneralDetails, BusinessScenarios, DataRequirement, LogsContacts>>

\* Sheet names of a workbook: some of the required sheets, with or without
\* the architecture sheet, and a workbook of one draft sheet.
Workbooks ==
    {SubSeq(OtherSheets, 1, k) \o a :
        k \in 0..Len(OtherSheets), a \in {<<>>, <<Architecture>>}}
    \cup {<<CoverPageDraft>>}

DateFound == <<"8/11/2025">>

\* What the date pattern finds.
DatesFound == {<<>>, DateFound, DateFound \o <<"9/1/2025">>}

\* excel_data with or without end dates.
EndDates == {EmptyDict, [end_date |-> <<>>], [end_date |-> DateFound]}

\* The embedded workbooks of a document.
Embeddings == UNION {[1..n -> Workbooks] : n \in 0..MaxFiles}

\* The section of document_data a check reads, or None in its place.
CheckSection(name, sections) ==
    {[s \in {name} |-> d] : d \in sections \cup {NoneSection}}

CheckInit ==
    /\ \/ /\ chk_impl = "docx_compliance"
          /\ chk_check = "table_of_contents"
          /\ chk_document_data \in CheckSection("table_of_contents",
                 {Docx_check_table_of_contents(t, s) : t \in BOOLEAN, s \in BOOLEAN})
          /\ chk_excel_data = EmptyDict
       \/ /\ chk_impl = "Version2"
          /\ chk_check = "table_of_contents"
          /\ chk_document_data \in CheckSection("table_of_contents",
                 {V2_check_table_of_contents(h, f) :
                     h \in BOOLEAN,
                     f \in SUBSET {REQUIRED_TOC_SECTIONS[i] :
                                      i \in 1..Len(REQUIRED_TOC_SECTIONS)}})
          /\ chk_excel_data = EmptyDict
       \/ /\ chk_impl \in {"docx_compliance", "pptx_compliance"}
          /\ chk_check = "embedded_excel"
          /\ chk_document_data \in CheckSection("embedded_excel",
                 {_detect_embedded_excel(ws) : ws \in Embeddings})
          /\ chk_excel_data = EmptyDict
       \/ /\ chk_impl = "Version2"
          /\ chk_check = "embedded_excel"
          /\ chk_document_data \in CheckSection("embedded_excel",
                 {_check_embedded_excel_with_sheets(ws) : ws \in Embeddings})
          /\ chk_excel_data = EmptyDict
       \/ /\ chk_impl = "docx_compliance"
          /\ chk_check = "milestones"
          /\ chk_document_data \in CheckSection("milestones",
                 {_check_milestones_section(m, d) : m \in BOOLEAN, d \in DatesFound})
          /\ chk_excel_data \in EndDates
    /\ chk_result = NoReport
    /\ chk_pc = "call"
    /\ MatchIdle
    /\ DateIdle
    /\ SlidesIdle
    /\ AnalyzerIdle
    /\ FlowIdle
    /\ EngineIdle
    /\ SimIdle
    /\ AggIdle
    /\ CatalogIdle
    /\ FirstPageIdle

\* _check_table_of_contents_compliance of src/docx_compliance.py.
DocxTableOfContents ==
    /\ chk_pc = "call"
    /\ chk_impl = "docx_compliance"
    /\ chk_check = "table_of_contents"
    /\ chk_result' = Docx_check_table_of_contents_compliance(chk_document_data, chk_excel_data)
    /\ chk_pc' = "done"
    /\ UNCHANGED <<chk_impl, chk_check, chk_document_data, chk_excel_data, match_vars,
                   date_vars, slide_vars, an_vars, engine_vars, base_vars,
                   flow_vars>>

\* _check_table_of_contents_compliance of the second checker.
V2TableOfContents ==
    /\ chk_pc = "call"
    /\ chk_impl = "Version2"
    /\ chk_check = "table_of_contents"
    /\ chk_result' = V2_check_table_of_contents_compliance(chk_document_data, chk_excel_data)
    /\ chk_pc' = "done"
    /\ UNCHANGED <<chk_impl, chk_check, chk_document_data, chk_excel_data, match_vars,
                   date_vars, slide_vars, an_vars, engine_vars, base_vars,
                   flow_vars>>

\* _check_embedded_excel_compliance of src/docx_compliance.py.
DocxEmbeddedExcel ==
    /\ chk_pc = "call"
    /\ chk_impl = "docx_compliance"
    /\ chk_check = "embedded_excel"
    /\ chk_result' = Docx_check_embedded_excel_compliance(chk_document_data, chk_excel_data)
    /\ chk_pc' = "done"
    /\ UNCHANGED <<chk_impl, chk_check, chk_document_data, chk_excel_data, match_vars,
                   date_vars, slide_vars, an_vars, engine_vars, base_vars,
                   flow_vars>>

\* _check_embedded_excel_compliance of src/pptx_compliance.py.
PptxEmbeddedExcel ==
    /\ chk_pc = "call"
    /\ chk_impl = "pptx_compliance"
    /\ chk_check = "embedded_excel"
    /\ chk_result' = Pptx_check_embedded_excel_compliance(chk_document_data, chk_excel_data)
    /\ chk_pc' = "done"
    /\ UNCHANGED <<chk_impl, chk_check, chk_document_data, chk_excel_data, match_vars,
                   date_vars, slide_vars, an_vars, engine_vars, base_vars,
                   flow_vars>>

\* _check_embedded_excel_compliance of the second checker.
V2EmbeddedExcel ==
    /\ chk_pc = "call"
    /\ chk_impl = "Version2"
    /\ chk_check = "embedded_excel"
    /\ chk_result' = V2_check_embedded_excel_compliance(chk_document_data, chk_excel_data)
    /\ chk_pc' = "done"
    /\ UNCHANGED <<chk_impl, chk_check, chk_document_data, chk_excel_data, match_vars,
                   date_vars, slide_vars, an_vars, engine_vars, base_vars,
                   flow_vars>>

\* _check_milestones_compliance of src/docx_compliance.py.
DocxMilestones ==
    /\ chk_pc = "call"
    /\ chk_impl = "docx_compliance"
    /\ chk_check = "milestones"
    /\ chk_result' = Docx_check_milestones_compliance(chk_document_data, chk_excel_data)
    /\ chk_pc' = "done"
    /\ UNCHANGED <<chk_impl, chk_check, chk_document_data, chk_excel_data, match_vars,
                   date_vars, slide_vars, an_vars, engine_vars, base_vars,
                   flow_vars>>

CheckNext ==
    \/ DocxTableOfContents
    \/ V2TableOfContents
    \/ DocxEmbeddedExcel
    \/ PptxEmbeddedExcel
    \/ V2EmbeddedExcel
    \/ DocxMilestones

SpecCheck == CheckInit /\ [][CheckNext]_vars

\* The section the check read, when the check was called and the section
\* is a dict.
Checked(check) ==
    /\ chk_pc = "done"
    /\ chk_check = check
    /\ ~IsNoneSection(chk_document_data[check])

\* How many of the required markers of the table of contents were found,
\* and how many are required.
MarkersFound ==
    IF chk_impl = "Version2"
    THEN chk_document_data.table_of_contents.found_sections_count
    ELSE Cardinality({m \in {"has_table_of_contents", "has_scope_section"} :
                         chk_document_data.table_of_contents[m]})

MarkersRequired == IF chk_impl = "Version2" THEN Len(REQUIRED_TOC_SECTIONS) ELSE 2

\* C17: the table of contents check scores found required markers / total
\* required markers and passes iff that score is >= 0.6.
C17MarkerRatio ==
    Checked("table_of_contents") =>
        /\ chk_result.score = FromRatio(MarkersFound, MarkersRequired)
        /\ chk_result.passed <=> FGeq(chk_result.score, FromRatio(6, 10))

\* The share of required sheet names found in the embedded workbook, and
\* the architecture-sheet indicator.
SheetsFoundRatio ==
    LET embedded == chk_document_data.embedded_excel
    IN  IF chk_impl = "Version2"
        THEN FromRatio(OverallFoundSheets(embedded.excel_files_info,
                                          Len(embedded.excel_files_info)),
                       Len(required_sheets))
        ELSE WorksheetScore(DictGet(embedded, "worksheet_names", <<>>))

ArchitectureIndicator ==
    LET embedded == chk_document_data.embedded_excel
    IN  IF chk_impl = "Version2"
        THEN \E i \in 1..Len(embedded.excel_files_info) :
                 embedded.excel_files_info[i].required_sheets_found[Architecture]
        ELSE DictGet(embedded, "has_architecture_sheet", FALSE)

\* C18: the embedded workbook check scores 0.8 x (required sheet names found
\* / total required) + 0.2 x (architecture-sheet indicator present) and
\* passes iff the score is >= 0.7.
C18WeightedSheets ==
    Checked("embedded_excel") =>
        /\ chk_result.score =
              FAdd(FMul(FromRatio(8, 10), SheetsFoundRatio),
                   IF ArchitectureIndicator THEN FromRatio(2, 10) ELSE FZero)
        /\ chk_result.passed <=> FGeq(chk_result.score, FromRatio(7, 10))

\* C19: the milestones check scores 0 when the milestones marker is absent,
\* 0.6 when it is present, plus 0.4 if at least one date was extracted,
\* capped at 1.0, and passes iff the score is >= 0.6, that is exactly when
\* the marker is present.
C19MilestonesScore ==
    Checked("milestones") =>
        LET milestones == chk_document_data.milestones
            base == IF milestones.has_milestones_section THEN FromRatio(6, 10) ELSE FZero
            bonus == IF /\ milestones.has_milestones_section
                        /\ milestones.implementation_dates # <<>>
                     THEN FromRatio(4, 10) ELSE FZero
            sum == FAdd(base, bonus)
        IN  /\ chk_result.score = IF FGreater(sum, FOne) THEN FOne ELSE sum
            /\ chk_result.passed <=> FGeq(chk_result.score, FromRatio(6, 10))
            /\ chk_result.passed <=> milestones.has_milestones_section

\* The milestones check ran on a document with the marker and a date, with
\* an end date in the reference data, so that the score went through the
\* cap; it scored 1.0 and passed.
C19Witness ==
    /\ Checked("milestones")
    /\ chk_document_data.milestones.has_milestones_section
    /\ chk_document_data.milestones.implementation_dates # <<>>
    /\ Available(chk_excel_data, "end_date")
    /\ chk_result.score = FOne
    /\ chk_result.passed

\* The embedded workbook check of src/docx_compliance.py ran on what
\* src/docx_analyzer.py extracted from a document with a workbook.
DocxWorkbookChecked ==
    /\ Checked("embedded_excel")
    /\ chk_impl = "docx_compliance"
    /\ chk_document_data.embedded_excel.has_embedded_excel

\* A sheet whose name contains 'architecture', in any case.
NamesArchitecture(sheet_names) ==
    \E i \in 1..Len(sheet_names) :
        \E j \in 0..(Len(sheet_names[i]) - 12) :
            Lower(SubSeq(sheet_names[i], j + 1, j + 12)) =
                <<"a", "r", "c", "h", "i", "t", "e", "c", "t", "u", "r", "e">>

\* C30: the embedded workbook check of the DOCX pipeline passes only if the
\* architecture-sheet indicator is present and at least 4 of the 6 required
\* worksheet names are found; for every list of sheet names without a
\* sheet containing 'architecture' the score stays below 0.7 and the check
\* fails.
C30ArchitectureNeeded ==
    DocxWorkbookChecked =>
        LET embedded == chk_document_data.embedded_excel
        IN  /\ chk_result.passed =>
                  /\ embedded.has_architecture_sheet
                  /\ Cardinality(chk_result.details.found_worksheets) >= 4
            /\ ~NamesArchitecture(embedded.worksheet_names) =>
                  /\ FGreater(FromRatio(7, 10), chk_result.score)
                  /\ ~chk_result.passed

\* A workbook with the architecture sheet and three more required sheets
\* passed, and a workbook with the five other required sheets is among the
\* inputs.
C30Witness ==
    /\ DocxWorkbookChecked
    /\ chk_document_data.embedded_excel.has_architecture_sheet
    /\ Cardinality(chk_result.details.found_worksheets) = 4
    /\ chk_result.passed
    /\ OtherSheets \in Workbooks

-----------------------------------------------------------------------------
(* run_all_checks on a pool of checks that return or raise, and on the two *)
(* check catalogs with the data of a checker.                              *)

\* The lists of two or more check functions each of which returns a passed
\* result or raises.
PoolLists(max) ==
    UNION {{[i \in 1..n |->
                [name |-> FuncNames[i],
                 outcome |-> IF i \in raising THEN Raises("check raised")
                             ELSE Returns(ComplianceResult(CheckNames[i], TRUE, FOne,
                                              [similarity_score |-> FOne], <<>>))]] :
               raising \in SUBSET (1..n)} : n \in 2..max}

PoolInit ==
    /\ check_functions \in PoolLists(MaxChecks)
    /\ parallel \in BOOLEAN
    /\ max_workers \in Widths
    /\ pc = "call"
    /\ submitted = 0
    /\ finished = {}
    /\ snapshot = {}
    /\ waiter = <<>>
    /\ results = <<>>
    /\ report = NoReport
    /\ run = 1
    /\ first_report = NoReport
    /\ SimIdle
    /\ AggIdle
    /\ CatalogIdle
    /\ FirstPageIdle
    /\ ExtIdle

SpecPool == PoolInit /\ [][Next]_vars

\* __name__ of the check functions of the PPTX catalog.
PptxFuncNames == <<"_check_first_slide_compliance", "_check_embedded_excel_compliance",
                   "_check_milestones_compliance", "_check_plt_status_compliance",
                   "_check_slide_count_compliance">>

\* get_check_functions() of a checker built on doc and excel: the bound
\* methods, each with what it returns on that data.
get_check_functions(k, doc, excel) ==
    [i \in 1..CatalogSize |->
        [name |-> IF k = "docx" THEN FuncNames[i] ELSE PptxFuncNames[i],
         outcome |-> Returns(CatalogCheck(k, i, doc, excel))]]

\* A compliant and a blank document, a document with a near miss on the
\* first page and one whose milestones section is None.
SharedInputs ==
    {Compliant, Blank,
     [Compliant EXCEPT !.doc_project_name = Near],
     [Compliant EXCEPT !.none_section = "milestones"]}

SharedInit ==
    /\ kind \in {"docx", "pptx"}
    /\ \E in \in SharedInputs :
          /\ document_data = IF kind = "docx" THEN DocxDocument(in) ELSE PptxDocument(in)
          /\ excel_data = ReferenceRecord(in)
    /\ check_functions = get_check_functions(kind, document_data, excel_data)
    /\ parallel \in BOOLEAN
    /\ max_workers \in Widths
    /\ pc = "call"
    /\ submitted = 0
    /\ finished = {}
    /\ snapshot = {}
    /\ waiter = <<>>
    /\ results = <<>>
    /\ report = NoReport
    /\ run = 1
    /\ first_report = NoReport
    /\ cat_results = <<>>
    /\ cat_report = NoReport
    /\ cat_pc = "idle"
    /\ SimIdle
    /\ AggIdle
    /\ FirstPageIdle
    /\ ExtIdle

SpecShared == SharedInit /\ [][Next]_vars

-----------------------------------------------------------------------------
\* The status-marker lookup of the slide-deck analyzers: _check_plt_status
\* (ppt_analyzer.py) and _check_pt_status (Version2).  Slide texts are
\* sequences of characters; the regular expressions are computed as the
\* regex engine computes them (leftmost match, greedy classes, backtracking).

MaxSlides == 3

\* \s of the patterns, and the characters [^\n\r] excludes.
RegexSpace == {" ", "\t", "\n", "\r"}

LineBreaks == {"\n", "\r"}

\* The literal lit stands at position p of text (re.IGNORECASE).
LiteralAt(text, p, lit) ==
    /\ p >= 1
    /\ p + Len(lit) - 1 <= Len(text)
    /\ Lower(SubSeq(text, p, p + Len(lit) - 1)) = Lower(lit)

\* The first position from q on whose character is outside class (Len + 1
\* when the run reaches the end of the text).
RECURSIVE RunEnd(_, _, _)
RunEnd(text, q, class) ==
    IF q <= Len(text) /\ text[q] \in class THEN RunEnd(text, q + 1, class) ELSE q

\* The first position from q on that holds a line break.
RECURSIVE LineEnd(_, _)
LineEnd(text, q) ==
    IF q <= Len(text) /\ text[q] \notin LineBreaks THEN LineEnd(text, q + 1) ELSE q

\* word1\s+word2\s+...: the position after the last word when the words
\* stand at p, 0 when they do not.
RECURSIVE WordsEnd(_, _, _)
WordsEnd(text, p, words) ==
    IF ~LiteralAt(text, p, Head(words)) THEN 0
    ELSE LET q == p + Len(Head(words))
             r == RunEnd(text, q, RegexSpace)
         IN  IF Len(words) = 1 THEN q
             ELSE IF r = q THEN 0
             ELSE WordsEnd(text, r, Tail(words))

\* [:\s]*([^\n\r]+) from position q: the greedy class gives characters back
\* until a character that is no line break follows it; the group is the rest
\* of that line.  None when no such character exists.
RestOfLine(text, q) ==
    LET r == RunEnd(text, q, RegexSpace \cup {":"})
        starts == {s \in q..r : s <= Len(text) /\ text[s] \notin LineBreaks}
        s == CHOOSE x \in starts : \A y \in starts : y <= x
    IN  IF starts = {} THEN None ELSE SubSeq(text, s, LineEnd(text, s) - 1)

\* pattern.search(text) of a label pattern: group(1) of the leftmost match.
LabelSearch(text, words) ==
    LET hits == {p \in 1..Len(text) :
                    /\ WordsEnd(text, p, words) # 0
                    /\ RestOfLine(text, WordsEnd(text, p, words)) # None}
        p == CHOOSE x \in hits : \A y \in hits : x <= y
    IN  IF hits = {} THEN None ELSE RestOfLine(text, WordsEnd(text, p, words))

PLT_STATUS_PATTERNS ==
    << <<<<"P", "L", "T">>, <<"s", "t", "a", "t", "u", "s">>>>,
       <<<<"P", "r", "o", "d", "u", "c", "t", "i", "o", "n">>, <<"L", "i", "v", "e">>, <<"T", "e", "s", "t", "i", "n", "g">>>> >>

NoMatch == [matched |-> FALSE]

\* One pass of the inner loop of _check_plt_status over a slide text: the
\* first pattern that matches yields match.group(1).strip().
RECURSIVE PltMatch(_, _)
PltMatch(slide_text, patterns) ==
    IF patterns = <<>> THEN NoMatch
    ELSE IF LabelSearch(slide_text, Head(patterns)) # None
         THEN [matched |-> TRUE, status |-> Strip(LabelSearch(slide_text, Head(patterns)))]
         ELSE PltMatch(slide_text, Tail(patterns))

PT_HEADER == <<<<"O", "v", "e", "r", "a", "l", "l">>, <<"C", "e", "r", "t", "i", "f", "i", "c", "a", "t", "i", "o", "n">>, <<"P", "T">>, <<"S", "t", "a", "t", "u", "s">>>>

PASS == <<"P", "A", "S", "S">>

FAIL == <<"F", "A", "I", "L">>

\* (PASS|FAIL) at position q: the characters matched, None when neither.
PassFailAt(text, q) ==
    IF LiteralAt(text, q, PASS) \/ LiteralAt(text, q, FAIL)
    THEN SubSeq(text, q, q + 3) ELSE None

\* PT_STATUS[0]: header \s*[:\-]?\s*(PASS|FAIL).
HeaderThenValue(text) ==
    LET ValueAt(p) ==
            LET e == WordsEnd(text, p, PT_HEADER)
                a == RunEnd(text, e, RegexSpace)
                b == IF a <= Len(text) /\ text[a] \in {":", "-"} THEN a + 1 ELSE a
                c == RunEnd(text, b, RegexSpace)
            IN  IF e = 0 THEN None ELSE PassFailAt(text, c)
        hits == {p \in 1..Len(text) : ValueAt(p) # None}
    IN  IF hits = {} THEN None ELSE ValueAt(CHOOSE x \in hits : \A y \in hits : x <= y)

\* PT_STATUS[1]: header .*?(PASS|FAIL) with DOTALL, the first value after
\* the header wherever it stands.
HeaderThenAnywhere(text) ==
    LET ValueAfter(p) ==
            LET e == WordsEnd(text, p, PT_HEADER)
                at == {s \in e..Len(text) : PassFailAt(text, s) # None}
            IN  IF e = 0 \/ at = {} THEN None
                ELSE PassFailAt(text, CHOOSE x \in at : \A y \in at : x <= y)
        hits == {p \in 1..Len(text) : ValueAfter(p) # None}
    IN  IF hits = {} THEN None ELSE ValueAfter(CHOOSE x \in hits : \A y \in hits : x <= y)

\* PT_STATUS[2] and PT_STATUS[3]: \b(word)\b.
WholeWord(text, word) ==
    LET hits == {p \in 1..Len(text) :
                    /\ LiteralAt(text, p, word)
                    /\ (p = 1 \/ ~WordChar(text[p - 1]))
                    /\ (p + Len(word) > Len(text) \/ ~WordChar(text[p + Len(word)]))}
        p == CHOOSE x \in hits : \A y \in hits : x <= y
    IN  IF hits = {} THEN None ELSE SubSeq(text, p, p + Len(word) - 1)

\* pattern.search(slide_text) of OptimizedPatterns.PT_STATUS[pattern_index].
PT_STATUS(pattern_index, text) ==
    CASE pattern_index = 0 -> HeaderThenValue(text)
      [] pattern_index = 1 -> HeaderThenAnywhere(text)
      [] pattern_index = 2 -> WholeWord(text, PASS)
      [] pattern_index = 3 -> WholeWord(text, FAIL)

\* The inner loop of _check_pt_status over one slide text: the first
\* pattern that matches, with the status it captured.
RECURSIVE PtMatch(_, _)
PtMatch(slide_text, pattern_index) ==
    IF pattern_index > 3 THEN NoMatch
    ELSE IF PT_STATUS(pattern_index, slide_text) # None
              /\ Upper(Strip(PT_STATUS(pattern_index, slide_text))) \in {PASS, FAIL}
         THEN [matched |-> TRUE, pattern_index |-> pattern_index,
               status |-> Upper(Strip(PT_STATUS(pattern_index, slide_text)))]
         ELSE PtMatch(slide_text, pattern_index + 1)

\* Slide texts as _extract_text_from_xml and _extract_slide_text hand them
\* over: text runs joined by ' ' (ppt_analyzer.py), stripped shape texts
\* joined by '\n' (Version2).
AgendaText ==
    <<"A", "g", "e", "n", "d", "a">>

PltOpenText ==
    <<"P", "L", "T", " ", "S", "t", "a", "t", "u", "s", ":", " ">>

PltGoText ==
    <<"P", "L", "T", " ", "s", "t", "a", "t", "u", "s", ":", " ", "G", "o">>

LiveTestingText ==
    <<"P", "r", "o", "d", "u", "c", "t", "i", "o", "n", " ", "L", "i", "v", "e", " ",
      "T", "e", "s", "t", "i", "n", "g", "\n", "O", "K">>

PtPassText ==
    <<"O", "v", "e", "r", "a", "l", "l", " ", "C", "e", "r", "t", "i", "f", "i", "c",
      "a", "t", "i", "o", "n", " ", "P", "T", " ", "S", "t", "a", "t", "u", "s", ":",
      " ", "P", "A", "S", "S">>

PtLateText ==
    <<"O", "v", "e", "r", "a", "l", "l", " ", "C", "e", "r", "t", "i", "f", "i", "c",
      "a", "t", "i", "o", "n", " ", "P", "T", " ", "S", "t", "a", "t", "u", "s", "\n",
      "r", "u", "n", " ", "2", " ", "f", "a", "i", "l">>

BarePassText ==
    <<"R", "e", "s", "u", "l", "t", " ", "p", "a", "s", "s">>

PassedText ==
    <<"P", "a", "s", "s", "e", "d">>

PltSlideTexts == {AgendaText, PltOpenText, PltGoText, LiveTestingText, PassedText}

PtSlideTexts == {AgendaText, PtPassText, PtLateText, BarePassText, PassedText}

SlideDecks(texts) == UNION {[1..n -> texts] : n \in 1..MaxSlides}

StatusInit ==
    /\ st_impl \in {"plt", "pt"}
    /\ st_slides \in SlideDecks(IF st_impl = "plt" THEN PltSlideTexts ELSE PtSlideTexts)
    /\ st_examined = <<>>
    /\ st_status = None
    /\ st_found = <<>>
    /\ st_result = NoReport
    /\ st_pc = "loop"
    /\ PipelineIdle
    /\ ReaderIdle
    /\ SelectionIdle
    /\ MatchIdle
    /\ DateIdle
    /\ SlidesIdle
    /\ AnalyzerIdle
    /\ CheckIdle
    /\ EngineIdle
    /\ SimIdle
    /\ AggIdle
    /\ CatalogIdle
    /\ FirstPageIdle

\* One iteration of `for i, slide_file in enumerate(slide_files, 1)` of
\* _check_plt_status; the loop is left once plt_status is truthy.
PltExamine ==
    /\ st_pc = "loop"
    /\ st_impl = "plt"
    /\ Falsy(st_status)
    /\ Len(st_examined) < Len(st_slides)
    /\ LET i == Len(st_examined) + 1
           match == PltMatch(st_slides[i], PLT_STATUS_PATTERNS)
       IN  /\ st_examined' = Append(st_examined, i)
           /\ st_status' = IF match.matched THEN match.status ELSE st_status
           /\ st_found' = IF match.matched THEN Append(st_found, i) ELSE st_found
    /\ UNCHANGED <<st_impl, st_slides, st_result, st_pc, status_rest>>

\* The return of _check_plt_status, after the break or the last slide.
PltReturn ==
    /\ st_pc = "loop"
    /\ st_impl = "plt"
    /\ ~Falsy(st_status) \/ Len(st_examined) = Len(st_slides)
    /\ st_result' = [has_plt_status |-> st_status # None,
                     plt_status |-> st_status,
                     plt_slides |-> st_found]
    /\ st_pc' = "done"
    /\ UNCHANGED <<st_impl, st_slides, st_examined, st_status, st_found, status_rest>>

\* One iteration of `for slide_num, slide in enumerate(slides, 1)` of
\* _check_pt_status, which returns from inside the loop on a match.
PtExamine ==
    /\ st_pc = "loop"
    /\ st_impl = "pt"
    /\ Len(st_examined) < Len(st_slides)
    /\ LET slide_num == Len(st_examined) + 1
           match == PtMatch(st_slides[slide_num], 0)
       IN  /\ st_examined' = Append(st_examined, slide_num)
           /\ IF match.matched
              THEN /\ st_status' = match.status
                   /\ st_found' = <<slide_num>>
                   /\ st_result' = [status_found |-> TRUE,
                                    status_value |-> match.status,
                                    status_slide_number |-> slide_num,
                                    has_proper_header |-> match.pattern_index < 2]
                   /\ st_pc' = "done"
              ELSE UNCHANGED <<st_status, st_found, st_result, st_pc>>
    /\ UNCHANGED <<st_impl, st_slides, status_rest>>

\* The return of _check_pt_status after the last slide.
PtReturn ==
    /\ st_pc = "loop"
    /\ st_impl = "pt"
    /\ Len(st_examined) = Len(st_slides)
    /\ st_result' = [status_found |-> FALSE,
                     status_value |-> None,
                     status_slide_number |-> 0,
                     has_proper_header |-> FALSE]
    /\ st_pc' = "done"
    /\ UNCHANGED <<st_impl, st_slides, st_examined, st_status, st_found, status_rest>>

StatusNext == PltExamine \/ PltReturn \/ PtExamine \/ PtReturn

SpecStatus == StatusInit /\ [][StatusNext]_vars

\* Whether a status pattern matches on a slide text, and the status
\* captured there.
StatusMatch(text) ==
    IF st_impl = "plt" THEN PltMatch(text, PLT_STATUS_PATTERNS) ELSE PtMatch(text, 0)

MatchingSlides == {i \in 1..Len(st_slides) : StatusMatch(st_slides[i]).matched}

FirstMatchingSlide == CHOOSE i \in MatchingSlides : \A j \in MatchingSlides : i <= j

ReportedStatus ==
    IF st_impl = "plt" THEN st_result.plt_status ELSE st_result.status_value

ReportedSlides ==
    IF st_impl = "plt" THEN st_result.plt_slides
    ELSE IF st_result.status_found THEN <<st_result.status_slide_number>> ELSE <<>>

\* C22: the status-marker lookup scans the slides in ascending order and
\* stops at the first slide on which a status pattern matches: when it has
\* returned, the slides examined are exactly 1..f for the lowest-numbered
\* matching slide f (all slides when none matches), the reported status is
\* the one captured on slide f, and the list of status slides holds no
\* slide number other than f.
C22StopsAtFirstHit ==
    st_pc = "done" =>
        IF MatchingSlides = {}
        THEN /\ st_examined = [i \in 1..Len(st_slides) |-> i]
             /\ ReportedStatus = None
             /\ ReportedSlides = <<>>
        ELSE /\ st_examined = [i \in 1..FirstMatchingSlide |-> i]
             /\ ReportedStatus = StatusMatch(st_slides[FirstMatchingSlide]).status
             /\ ReportedSlides = <<FirstMatchingSlide>>

-----------------------------------------------------------------------------
\* A compliance run of the Version2 application, followed for one check:
\* analyze() of the analyzer, the excel_data _run_pptx_compliance_check and
\* _run_docx_compliance_check prepare from project_data, and the check.

\* HYPHENATED_IDS.search(slide_text): (RLSE\d{7})\s*-\s*(PRJ0\d{4}) with
\* re.IGNORECASE, the groups of the leftmost match.
HYPHENATED_IDS(slide_text) ==
    LET ProjectAt(p) ==
            LET a == RunEnd(slide_text, p + 11, RegexSpace)
            IN  IF a <= Len(slide_text) /\ slide_text[a] = "-"
                THEN RunEnd(slide_text, a + 1, RegexSpace) ELSE 0
        Matches(p) ==
            /\ LiteralAt(slide_text, p, <<"R", "L", "S", "E">>)
            /\ p + 10 <= Len(slide_text)
            /\ AllDigits(SubSeq(slide_text, p + 4, p + 10))
            /\ ProjectAt(p) # 0
            /\ LiteralAt(slide_text, ProjectAt(p), <<"P", "R", "J", "0">>)
            /\ ProjectAt(p) + 7 <= Len(slide_text)
            /\ AllDigits(SubSeq(slide_text, ProjectAt(p) + 4, ProjectAt(p) + 7))
        hits == {p \in 1..Len(slide_text) : Matches(p)}
        p == CHOOSE x \in hits : \A y \in hits : x <= y
    IN  IF hits = {} THEN NoMatch
        ELSE [matched |-> TRUE,
              group1 |-> SubSeq(slide_text, p, p + 10),
              group2 |-> SubSeq(slide_text, ProjectAt(p), ProjectAt(p) + 7)]

\* _analyze_first_slide: the hyphenated identifiers of the first slide.
\* (The three METADATA_PATTERNS fields, which the dual-identifier check
\* does not read, are left out of the dict.)
_analyze_first_slide(slides) ==
    LET first_slide_data ==
            [hyphenated_ids_found |-> FALSE,
             hyphenated_enterprise_release_id |-> None,
             hyphenated_clarity_project_id |-> None]
        hyphenated_match == HYPHENATED_IDS(slides[1])
    IN  IF Len(slides) = 0 \/ ~hyphenated_match.matched THEN first_slide_data
        ELSE [hyphenated_ids_found |-> TRUE,
              hyphenated_enterprise_release_id |-> hyphenated_match.group1,
              hyphenated_clarity_project_id |-> hyphenated_match.group2]

\* The excel_data dict both _run_*_compliance_check methods build.
PrepareExcelData(project_data) ==
    [enterprise_release_id |-> <<DictGet(project_data, "Enterprise Release ID", None)>>,
     business_application |-> <<DictGet(project_data, "Business Application", None)>>,
     business_app_id |-> <<DictGet(project_data, "Application ID", None)>>,
     release |-> <<DictGet(project_data, "Release", None)>>,
     clarity_project_id |-> <<DictGet(project_data, "Clarity Project ID", None)>>,
     project_name |-> <<DictGet(project_data, "Project Name", None)>>,
     install_start_date |-> <<DictGet(project_data, "Install Start Date", None)>>]

\* re.match(r'^RLSE\d{7}$', s, re.IGNORECASE)
MatchesRlse(s) ==
    Len(s) = 11 /\ LiteralAt(s, 1, <<"R", "L", "S", "E">>) /\ AllDigits(SubSeq(s, 5, 11))

\* re.match(r'^PRJ0\d{4}$', s, re.IGNORECASE)
MatchesPrj0(s) ==
    Len(s) = 8 /\ LiteralAt(s, 1, <<"P", "R", "J", "0">>) /\ AllDigits(SubSeq(s, 5, 8))

\* One of the two id results of _check_hyphenated_ids_compliance.
IdResult(excel_id, ppt_id, format_ok) ==
    [expected |-> excel_id,
     actual |-> ppt_id,
     match |-> ~Falsy(excel_id) /\ ~Falsy(ppt_id) /\ format_ok
                  /\ Upper(excel_id) = Upper(ppt_id),
     status |-> IF ~Falsy(excel_id) /\ ~Falsy(ppt_id)
                THEN IF format_ok /\ Upper(excel_id) = Upper(ppt_id)
                     THEN "match" ELSE "mismatch"
                ELSE IF Falsy(excel_id) THEN "missing_excel"
                ELSE "missing_document"]

_check_hyphenated_ids_compliance(doc, excel) ==
    LET first_slide_data == DictGet(doc, "first_slide_data", EmptyDict)
        excel_enterprise == DictGet(excel, "release_id", <<None>>)[1]
        ppt_enterprise == DictGet(first_slide_data, "hyphenated__release_id", None)
        excel_clarity == DictGet(excel, "clarity_project_id", <<None>>)[1]
        ppt_clarity == DictGet(first_slide_data, "hyphenated_clarity_project_id", None)
        enterprise_result ==
            IdResult(excel_enterprise, ppt_enterprise,
                     ~Falsy(ppt_enterprise) /\ MatchesRlse(ppt_enterprise))
        clarity_result ==
            IdResult(excel_clarity, ppt_clarity,
                     ~Falsy(ppt_clarity) /\ MatchesPrj0(ppt_clarity))
        matches == (IF enterprise_result.match THEN 1 ELSE 0)
                       + (IF clarity_result.match THEN 1 ELSE 0)
        total_checks == 2
        score == FromRatio(matches, total_checks)
    IN  IF ~DictGet(first_slide_data, "hyphenated_ids_found", FALSE)
        THEN V2ComplianceResult(FALSE, FZero, "Hyphenated IDs format not found",
                                None, None, None)
        ELSE V2ComplianceResult(FGeq(score, FromRatio(1, 2)), score,
                 [matches |-> matches, total_checks |-> total_checks],
                 <<excel_enterprise, excel_clarity>>,
                 <<ppt_enterprise, ppt_clarity>>,
                 [enterprise_release_id |-> enterprise_result,
                  clarity_project_id |-> clarity_result])

\* The reference record of the selected project.
ReferenceRelease ==
    <<"R", "L", "S", "E", "0", "0", "3", "1", "1", "1", "5">>

ReferenceProject ==
    <<"P", "R", "J", "0", "0", "0", "1", "5">>

PairText ==
    <<"R", "L", "S", "E", "0", "0", "3", "1", "1", "1", "5", " ", "-", " ", "P", "R",
      "J", "0", "0", "0", "1", "5">>

PairLowerText ==
    <<"K", "i", "c", "k", "o", "f", "f", "\n", "r", "l", "s", "e", "0", "0", "3", "1",
      "1", "1", "5", "-", "p", "r", "j", "0", "0", "0", "1", "5">>

OtherProjectText ==
    <<"R", "L", "S", "E", "0", "0", "3", "1", "1", "1", "5", " ", "-", " ", "P", "R",
      "J", "0", "0", "0", "1", "6">>

OtherReleaseText ==
    <<"R", "L", "S", "E", "0", "0", "9", "9", "9", "9", "9", " ", "-", " ", "P", "R",
      "J", "0", "0", "0", "1", "5">>

ShortReleaseText ==
    <<"R", "L", "S", "E", "3", "1", "1", "1", "5", " ", "-", " ", "P", "R", "J", "0",
      "0", "0", "1", "5">>

FirstSlideTexts ==
    {AgendaText, PairText, PairLowerText, OtherProjectText, OtherReleaseText,
     ShortReleaseText}

\* Decks of no slide, one slide, or a first slide followed by an agenda.
Decks ==
    {<<>>} \cup {<<t>> : t \in FirstSlideTexts} \cup {<<t, AgendaText>> : t \in FirstSlideTexts}

ProjectKeys ==
    {"Release", "Project Name", "Business Application", "Application ID",
     "Enterprise Release ID", "Clarity Project ID", "Install Start Date"}

\* What get_project_data_by_release_criteria returns: every value a str,
\* '' for a cell the sheet does not have.
ProjectData(release_id, project_id, install_date) ==
    [k \in ProjectKeys |->
        CASE k = "Enterprise Release ID" -> release_id
          [] k = "Clarity Project ID" -> project_id
          [] k = "Install Start Date" -> install_date
          [] k = "Release" -> V2Expected.enterprise_release_id
          [] k = "Project Name" -> V2Expected.project_name
          [] k = "Business Application" -> V2Expected.business_application
          [] k = "Application ID" -> V2Expected.business_app_id]

\* A Python str where a list may stand as well, and a list.
PyStr(chars) == [str |-> chars]

PyList(items) == [list |-> items]

IsPyStr(v) == "str" \in DOMAIN v

\* `not v`, and what `for x in v` yields: the characters of a str, the
\* items of a list.
PyEmpty(v) == IF IsPyStr(v) THEN v.str = <<>> ELSE v.list = <<>>

PyItems(v) == IF IsPyStr(v) THEN [i \in 1..Len(v.str) |-> <<v.str[i]>>] ELSE v.list

RECURSIVE Flatten(_)
Flatten(seqs) == IF seqs = <<>> THEN <<>> ELSE Head(seqs) \o Flatten(Tail(seqs))

\* sep.join(parts)
RECURSIVE Join(_, _)
Join(parts, sep) ==
    IF parts = <<>> THEN <<>>
    ELSE IF Len(parts) = 1 THEN parts[1]
    ELSE parts[1] \o sep \o Join(Tail(parts), sep)

\* str(list_of_str): the repr of the list.
PyRepr(items) ==
    <<"[">> \o Join([i \in 1..Len(items) |-> <<"'">> \o items[i] \o <<"'">>], <<",", " ">>)
        \o <<"]">>

\* The length of the match of (\d{1,2}/\d{1,2}/\d{4}) at position p of text,
\* 0 when there is none.
DateSpan(text, p) ==
    LET rest == SubSeq(text, p, Len(text))
        g == CHOOSE x \in DateGroups(rest) : TRUE
    IN  IF p > Len(text) \/ DateGroups(rest) = {} THEN 0 ELSE g[1] + g[2] + 6

\* DATE_GENERAL.findall(text) from position p on.
RECURSIVE DATE_GENERAL(_, _)
DATE_GENERAL(text, p) ==
    IF p > Len(text) THEN <<>>
    ELSE IF DateSpan(text, p) = 0 THEN DATE_GENERAL(text, p + 1)
    ELSE <<SubSeq(text, p, p + DateSpan(text, p) - 1)>>
             \o DATE_GENERAL(text, p + DateSpan(text, p))

\* Implementation\s+Date[:\s]*(\d{1,2}/\d{1,2}/\d{4}) at position p: where
\* the date group starts, 0 when the pattern does not match at p.
LabelledDateAt(text, p) ==
    LET e == WordsEnd(text, p, <<<<"I", "m", "p", "l", "e", "m", "e", "n", "t", "a", "t", "i", "o", "n">>,
                                 <<"D", "a", "t", "e">>>>)
        r == RunEnd(text, e, RegexSpace \cup {":"})
    IN  IF e = 0 \/ DateSpan(text, r) = 0 THEN 0 ELSE r

\* DATE_IMPLEMENTATION.findall(text) from position p on.
RECURSIVE DATE_IMPLEMENTATION(_, _)
DATE_IMPLEMENTATION(text, p) ==
    IF p > Len(text) THEN <<>>
    ELSE LET r == LabelledDateAt(text, p)
         IN  IF r = 0 THEN DATE_IMPLEMENTATION(text, p + 1)
             ELSE <<SubSeq(text, r, r + DateSpan(text, r) - 1)>>
                      \o DATE_IMPLEMENTATION(text, r + DateSpan(text, r))

\* re.search(r'\b(?:w1|w2|...)\b', text, re.IGNORECASE) finds something.
HasWord(text, words) == \E w \in words : WholeWord(text, w) # None

\* re.search(r'\b12\.?\s*(?:milestones|deliverables)\b', text, re.IGNORECASE)
HasSection12(text) ==
    \E p \in 1..Len(text) :
        /\ LiteralAt(text, p, <<"1", "2">>)
        /\ (p = 1 \/ ~WordChar(text[p - 1]))
        /\ LET d == IF p + 2 <= Len(text) /\ text[p + 2] = "." THEN p + 3 ELSE p + 2
               AfterTitle(q) ==
                   \E w \in {<<"m", "i", "l", "e", "s", "t", "o", "n", "e", "s">>,
                             <<"d", "e", "l", "i", "v", "e", "r", "a", "b", "l", "e", "s">>} :
                       /\ LiteralAt(text, q, w)
                       /\ (q + Len(w) > Len(text) \/ ~WordChar(text[q + Len(w)]))
           IN  AfterTitle(RunEnd(text, d, RegexSpace)) \/ AfterTitle(RunEnd(text, p + 2, RegexSpace))

\* The dates the table scan of _extract_dates_from_milestones_table reaches,
\* normalized, in the order it reaches them.  A table is a list of rows of
\* stripped, non-empty cell texts.
TableScanDates(tables) ==
    LET CellDates(cell) ==
            LET found == DATE_GENERAL(cell, 1)
            IN  [i \in 1..Len(found) |-> normalize_date(found[i])]
        RowDates(row_data) ==
            Flatten([cell_idx \in 1..Len(row_data) |->
                IF HasWord(row_data[cell_idx], {<<"i", "m", "p", "l", "e", "m", "e", "n", "t", "a", "t", "i", "o", "n">>})
                THEN Flatten([n \in 1..(Len(row_data) - cell_idx) |->
                                 CellDates(row_data[cell_idx + n])])
                ELSE IF HasWord(row_data[cell_idx],
                                {<<"m", "i", "l", "e", "s", "t", "o", "n", "e">>,
                                 <<"d", "e", "l", "i", "v", "e", "r", "a", "b", "l", "e">>,
                                 <<"c", "o", "m", "p", "l", "e", "t", "i", "o", "n">>,
                                 <<"f", "i", "n", "i", "s", "h">>})
                THEN CellDates(row_data[cell_idx])
                ELSE <<>>])
        table_full_text(table_text) ==
            Join([r \in 1..Len(table_text) |-> Join(table_text[r], <<" ">>)], <<" ">>)
        Qualifies(table_text) ==
            \/ HasSection12(table_full_text(table_text))
            \/ HasWord(table_full_text(table_text), {<<"i", "m", "p", "l", "e", "m", "e", "n", "t", "a", "t", "i", "o", "n">>})
            \/ HasWord(table_full_text(table_text), {<<"m", "i", "l", "e", "s", "t", "o", "n", "e">>})
    IN  Flatten([t \in 1..Len(tables) |->
            IF Qualifies(tables[t])
            THEN Flatten([r \in 1..Len(tables[t]) |-> RowDates(tables[t][r])])
            ELSE <<>>])

\* _extract_dates_from_milestones_table: `dates = ""`, so the first
\* `dates.append(normalized_date)` raises AttributeError, the except clause
\* logs it and `return dates` hands back the empty str; without a date in
\* a table the empty str is returned as well.
_extract_dates_from_milestones_table(tables) ==
    IF TableScanDates(tables) # <<>> THEN PyStr(<<>>) ELSE PyStr(<<>>)

\* The first occurrences of a list, in order.
RECURSIVE Unique(_)
Unique(dates) ==
    IF dates = <<>> THEN <<>>
    ELSE LET before == Unique(SubSeq(dates, 1, Len(dates) - 1))
             last == dates[Len(dates)]
         IN  IF \E i \in 1..Len(before) : before[i] = last THEN before
             ELSE Append(before, last)

\* The dates the label pattern finds in the document text, normalized.
PatternDates(document_text) ==
    LET matches == SelectSeq(DATE_IMPLEMENTATION(document_text, 1), LAMBDA d : d # <<>>)
    IN  [i \in 1..Len(matches) |-> normalize_date(matches[i])]

\* _extract_implementation_dates_enhanced: `return str(unique_dates)`.
_extract_implementation_dates_enhanced(document_text, tables) ==
    LET table_dates == _extract_dates_from_milestones_table(tables)
        \* dates.extend(table_dates): the items of table_dates
        dates == PatternDates(document_text) \o PyItems(table_dates)
    IN  PyStr(PyRepr(Unique(dates)))

_check_implementation_date_compliance(doc, excel) ==
    LET excel_install_date == DictGet(excel, "install_start_date", <<None>>)[1]
        implementation_dates == DictGet(doc, "implementation_dates", PyList(<<>>))
        excel_date_normalized == normalize_date(excel_install_date)
        items == PyItems(implementation_dates)
        equal == {i \in 1..Len(items) : items[i] = excel_date_normalized}
        impl_date == items[CHOOSE i \in equal : \A j \in equal : i <= j]
    IN  IF Falsy(excel_install_date)
        THEN V2ComplianceResult(FALSE, FZero, "No install start date found in Excel",
                                None, None, None)
        ELSE IF PyEmpty(implementation_dates)
        THEN V2ComplianceResult(FALSE, FZero, "No implementation dates found in document",
                                None, None, None)
        ELSE IF equal # {}
        THEN V2ComplianceResult(TRUE, FOne, "Implementation date matches",
                                excel_date_normalized, impl_date, None)
        ELSE V2ComplianceResult(FALSE, FZero, "Implementation date mismatch",
                                excel_date_normalized, implementation_dates, None)

\* Document texts and tables of a DOCX document.
NoDateText ==
        <<"S", "c", "o", "p", "e">>

OneDateText ==
        <<"I", "m", "p", "l", "e", "m", "e", "n", "t", "a", "t", "i", "o", "n", " ",
          "D", "a", "t", "e", ":", " ", "0", "8", "/", "1", "1", "/", "2", "0", "2", "5">>

ThreeDatesText ==
        <<"I", "m", "p", "l", "e", "m", "e", "n", "t", "a", "t", "i", "o", "n", " ",
          "D", "a", "t", "e", ":", " ", "0", "8", "/", "1", "1", "/", "2", "0", "2",
          "5", "\n", "i", "m", "p", "l", "e", "m", "e", "n", "t", "a", "t", "i", "o",
          "n", " ", "d", "a", "t", "e", "\n", "9", "/", "1", "/", "2", "0", "2", "5",
          " ", "I", "m", "p", "l", "e", "m", "e", "n", "t", "a", "t", "i", "o", "n",
          " ", "D", "a", "t", "e", ":", "8", "/", "1", "1", "/", "2", "0", "2", "5">>

DocumentTexts == {NoDateText, OneDateText, ThreeDatesText}

Section12Table ==
    << <<        <<"1", "2", ".", " ", "M", "i", "l", "e", "s", "t", "o", "n", "e", "s">>>>,
       <<        <<"I", "m", "p", "l", "e", "m", "e", "n", "t", "a", "t", "i", "o", "n">>,
                 <<"0", "9", "/", "0", "1", "/", "2", "0", "2", "5">>>> >>

MilestoneCellTable ==
    << <<        <<"M", "i", "l", "e", "s", "t", "o", "n", "e", " ", "1", "0", "/", "0", "2",
          "/", "2", "0", "2", "5">>>> >>

OwnersTable ==
    << <<        <<"O", "w", "n", "e", "r">>,
                 <<"1", "0", "/", "0", "2", "/", "2", "0", "2", "5">>>> >>

TableLists ==
    {<<>>, <<Section12Table>>, <<MilestoneCellTable>>, <<OwnersTable, Section12Table>>}

InstallDates ==
    {<<>>,
        <<"8", "/", "1", "1", "/", "2", "0", "2", "5">>,
        <<"9", "/", "1", "/", "2", "0", "2", "5">>,
        <<"1", "0", "/", "2", "/", "2", "0", "2", "5">>}

DocxInit ==
    /\ pl_check = "implementation_date"
    /\ pl_source \in {[document_text |-> t, tables |-> ts] :
                         t \in DocumentTexts, ts \in TableLists}
    /\ pl_project_data \in
           {ProjectData(ReferenceRelease, ReferenceProject, d) : d \in InstallDates}

PptxInit ==
    /\ pl_check = "hyphenated_ids"
    /\ pl_source \in {[slides |-> d] : d \in Decks}
    /\ pl_project_data \in
           {ProjectData(r, p, <<>>) : r \in {ReferenceRelease, <<>>},
                                      p \in {ReferenceProject, <<>>}}

PipelineInit ==
    /\ PptxInit \/ DocxInit
    /\ pl_document_data = EmptyDict
    /\ pl_excel_data = EmptyDict
    /\ pl_result = NoReport
    /\ pl_pc = "analyze"
    /\ StatusIdle
    /\ ReaderIdle
    /\ SelectionIdle
    /\ MatchIdle
    /\ DateIdle
    /\ SlidesIdle
    /\ AnalyzerIdle
    /\ CheckIdle
    /\ EngineIdle
    /\ SimIdle
    /\ AggIdle
    /\ CatalogIdle
    /\ FirstPageIdle

\* OptimizedPowerPointAnalyzer.analyze(), the first slide.
PptxAnalyze ==
    /\ pl_pc = "analyze"
    /\ pl_check = "hyphenated_ids"
    /\ pl_document_data' = [first_slide_data |-> _analyze_first_slide(pl_source.slides)]
    /\ pl_pc' = "prepare"
    /\ UNCHANGED <<pl_check, pl_source, pl_project_data, pl_excel_data, pl_result, pipe_rest>>

\* _run_pptx_compliance_check: `excel_data = {...}`.
PptxPrepare ==
    /\ pl_pc = "prepare"
    /\ pl_check = "hyphenated_ids"
    /\ pl_excel_data' = PrepareExcelData(pl_project_data)
    /\ pl_pc' = "check"
    /\ UNCHANGED <<pl_check, pl_source, pl_project_data, pl_document_data, pl_result,
                   pipe_rest>>

\* _check_hyphenated_ids_compliance of OptimizedPptxComplianceChecker.
V2HyphenatedIds ==
    /\ pl_pc = "check"
    /\ pl_check = "hyphenated_ids"
    /\ pl_result' = _check_hyphenated_ids_compliance(pl_document_data, pl_excel_data)
    /\ pl_pc' = "done"
    /\ UNCHANGED <<pl_check, pl_source, pl_project_data, pl_document_data, pl_excel_data,
                   pipe_rest>>

\* OptimizedDocxAnalyzer.analyze(), the implementation dates.
DocxAnalyze ==
    /\ pl_pc = "analyze"
    /\ pl_check = "implementation_date"
    /\ pl_document_data' =
           [implementation_dates |->
                _extract_implementation_dates_enhanced(pl_source.document_text,
                                                       pl_source.tables)]
    /\ pl_pc' = "prepare"
    /\ UNCHANGED <<pl_check, pl_source, pl_project_data, pl_excel_data, pl_result, pipe_rest>>

\* _run_docx_compliance_check: `excel_data = {...}`.
DocxPrepare ==
    /\ pl_pc = "prepare"
    /\ pl_check = "implementation_date"
    /\ pl_excel_data' = PrepareExcelData(pl_project_data)
    /\ pl_pc' = "check"
    /\ UNCHANGED <<pl_check, pl_source, pl_project_data, pl_document_data, pl_result,
                   pipe_rest>>

\* _check_implementation_date_compliance of OptimizedDocxComplianceChecker.
V2ImplementationDate ==
    /\ pl_pc = "check"
    /\ pl_check = "implementation_date"
    /\ pl_result' = _check_implementation_date_compliance(pl_document_data, pl_excel_data)
    /\ pl_pc' = "done"
    /\ UNCHANGED <<pl_check, pl_source, pl_project_data, pl_document_data, pl_excel_data,
                   pipe_rest>>

PipelineNext ==
    \/ PptxAnalyze
    \/ PptxPrepare
    \/ V2HyphenatedIds
    \/ DocxAnalyze
    \/ DocxPrepare
    \/ V2ImplementationDate

SpecPipeline == PipelineInit /\ [][PipelineNext]_vars

\* The hyphen-joined pair the first slide of the deck carries.
DeckPair ==
    IF pl_source.slides = <<>> THEN NoMatch ELSE HYPHENATED_IDS(pl_source.slides[1])

\* Both ids of the pair are format-valid and equal to the reference values
\* of the selected record.
PairIsCorrect ==
    /\ DeckPair.matched
    /\ MatchesRlse(DeckPair.group1)
    /\ MatchesPrj0(DeckPair.group2)
    /\ Upper(DeckPair.group1) = Upper(pl_project_data["Enterprise Release ID"])
    /\ Upper(DeckPair.group2) = Upper(pl_project_data["Clarity Project ID"])

\* C21: the dual-identifier check of a slide deck passes only when both the
\* release id and the project id of the hyphen-joined pair are format-valid
\* and equal to their reference values, and for a deck that carries the
\* correct pair it passes with both ids matched.
C21BothIdsRequired ==
    (pl_pc = "done" /\ pl_check = "hyphenated_ids") =>
        /\ pl_result.passed => PairIsCorrect
        /\ PairIsCorrect =>
              /\ pl_result.passed
              /\ pl_result.sub_results.enterprise_release_id.match
              /\ pl_result.sub_results.clarity_project_id.match

\* The implementation dates the document carries: those of the label
\* pattern and those of the table scan, normalized, without duplicates.
DocumentDates == Unique(PatternDates(pl_source.document_text) \o TableScanDates(pl_source.tables))

\* The reference install start date, normalized, is among the dates the
\* extraction handed to the check.
InstallDateExtracted ==
    LET reference == pl_project_data["Install Start Date"]
    IN  /\ ~Falsy(reference)
        /\ \E i \in 1..Len(PatternDates(pl_source.document_text)) :
               PatternDates(pl_source.document_text)[i] = normalize_date(reference)

\* C24: in the Version2 DOCX run the implementation-date check passes with
\* score 1.0 whenever the normalized reference install start date equals one
\* of the extracted implementation dates, and fails with score 0 otherwise.
C24DateAmongExtracted ==
    (pl_pc = "done" /\ pl_check = "implementation_date") =>
        IF InstallDateExtracted
        THEN pl_result.passed /\ pl_result.score = FOne
        ELSE ~pl_result.passed /\ pl_result.score = FZero

\* C23: the milestone-date extraction hands over the dates of the label
\* pattern merged with the dates of the table scan, each normalized, with
\* duplicates removed and the order of first occurrence kept.
C23MergedDates ==
    (pl_check = "implementation_date" /\ pl_pc \in {"prepare", "check", "done"}) =>
        /\ ~IsPyStr(pl_document_data.implementation_dates)
        /\ pl_document_data.implementation_dates.list = DocumentDates

-----------------------------------------------------------------------------
\* OptimizedExcelReader of excel_reader.py: load_data, load_data_from_upload,
\* clear_cache and the queries, four of them and _find_column_cached wrapped
\* in functools.lru_cache.  A DataFrame is its column names and its rows;
\* a cell is a value or "NaN".  The changes of dtype of _optimize_dataframe
\* leave the values as they are.

\* Most calls a reader is followed for.
MaxReaderCalls == 4

EXCEL_COLUMN_MAPPINGS ==
    [release |-> <<<<"R", "e", "l", "e", "a", "s", "e">>,
                   <<"R", "e", "l", "e", "a", "s", "e", " ", "V", "e", "r", "s", "i", "o", "n">>,
                   <<"V", "e", "r", "s", "i", "o", "n">>>>,
     business_app_id |-> <<<<"B", "u", "s", "i", "n", "e", "s", "s", " ", "A", "p", "p", "l", "i", "c", "a", "t",
  "i", "o", "n", " ", "I", "D">>,
                           <<"B", "u", "s", "i", "n", "e", "s", "s", " ", "A", "p", "p", " ", "I", "D">>,
                           <<"A", "p", "p", " ", "I", "D">>,
                           <<"A", "p", "p", "l", "i", "c", "a", "t", "i", "o", "n", " ", "I", "D">>>>,
     enterprise_release_id |-> <<<<"E", "n", "t", "e", "r", "p", "r", "i", "s", "e", " ", "R", "e", "l", "e", "a", "s",
  "e", " ", "I", "D">>,
                                 <<"R", "e", "l", "e", "a", "s", "e", " ", "I", "D">>,
                                 <<"E", "n", "t", "e", "r", "p", "r", "i", "s", "e", " ", "I", "D">>>>,
     project_name |-> <<<<"P", "r", "o", "j", "e", "c", "t", " ", "N", "a", "m", "e">>,
                        <<"P", "r", "o", "j", "e", "c", "t">>,
                        <<"N", "a", "m", "e">>>>,
     task_id |-> <<<<"T", "a", "s", "k", " ", "I", "D">>,
                   <<"T", "a", "s", "k">>,
                   <<"I", "D">>>>,
     end_date |-> <<<<"E", "n", "d", " ", "D", "a", "t", "e">>,
                    <<"C", "o", "m", "p", "l", "e", "t", "i", "o", "n", " ", "D", "a", "t", "e">>,
                    <<"T", "a", "r", "g", "e", "t", " ", "D", "a", "t", "e">>,
                    <<"D", "u", "e", " ", "D", "a", "t", "e">>>>]

\* The element of a sequence at the least of the positions given, None
\* when there is no position.
FirstAt(seq, hits) ==
    IF hits = {} THEN None ELSE seq[CHOOSE i \in hits : \A j \in hits : i <= j]

\* The body of _find_column_cached for a DataFrame (or None).
_find_column(df, mapping_key) ==
    LET possible_names == EXCEL_COLUMN_MAPPINGS[mapping_key]
        exact == FirstAt(possible_names,
                         {n \in 1..Len(possible_names) :
                             \E i \in 1..Len(df.columns) : df.columns[i] = possible_names[n]})
        loose == FirstAt(df.columns,
                         {c \in 1..Len(df.columns) :
                             \E i \in 1..Len(possible_names) :
                                 Contains(Lower(df.columns[c]), Lower(possible_names[i]))})
    IN  IF IsUnset(df) THEN None
        ELSE IF exact # None THEN exact
        ELSE loose

\* A call through an lru_cache wrapper: the value memoized under the key
\* if there is one, else the value of the body, which is memoized.  (The
\* keys of a run stay below CACHE_SIZE = 100, so nothing is evicted.)
Memoized(memo, key, value) ==
    IF key \in DOMAIN memo THEN [value |-> memo[key], memo |-> memo]
    ELSE [value |-> value, memo |-> memo @@ (key :> value)]

MappingKeys ==
    <<"release", "project_name", "business_app_id", "enterprise_release_id", "task_id",
      "end_date">>

\* The lru_cache of _find_column_cached after _build_column_mapping ran on df.
RECURSIVE FindColumnsMemo(_, _, _)
FindColumnsMemo(memo, df, keys) ==
    IF keys = <<>> THEN memo
    ELSE FindColumnsMemo(
             Memoized(memo, <<"_find_column_cached", Head(keys)>>,
                      _find_column(df, Head(keys))).memo,
             df, Tail(keys))

\* _build_column_mapping: the ColumnMapping of the six cached lookups.
_build_column_mapping(memo, df) ==
    [k \in {MappingKeys[i] : i \in 1..Len(MappingKeys)} |->
        FindColumnsMemo(memo, df, MappingKeys)[<<"_find_column_cached", k>>]]

\* The order sorted() gives the cell values of the sheets.
ValueOrder ==
    <<"2025.M08", "2025.M09", "2025.M10", "Apollo", "Borealis", "B1", "B2", "B3",
      "E1", "E2", "E3">>

RECURSIVE SortedValues(_, _)
SortedValues(values, order) ==
    IF order = <<>> THEN <<>>
    ELSE (IF Head(order) \in values THEN <<Head(order)>> ELSE <<>>)
             \o SortedValues(values, Tail(order))

HasColumn(df, col) == \E i \in 1..Len(df.columns) : df.columns[i] = col

\* sorted([str(v) for v in df.loc[mask, col].dropna().unique()]) for the
\* rows of the mask.
ColumnValues(df, col, mask) ==
    SortedValues({df.rows[i][col] : i \in mask} \ {"NaN"}, ValueOrder)

\* The body of get_releases.  Indexing None or a column the frame does not
\* have raises, and the except clause returns [].
get_releases(df, is_loaded, mapping) ==
    IF ~is_loaded \/ mapping.release = None THEN <<>>
    ELSE IF IsUnset(df) \/ ~HasColumn(df, mapping.release) THEN <<>>
    ELSE ColumnValues(df, mapping.release, 1..Len(df.rows))

\* The body of get_projects_by_release.
get_projects_by_release(df, is_loaded, mapping, release) ==
    IF ~is_loaded \/ mapping.release = None \/ mapping.project_name = None THEN <<>>
    ELSE IF IsUnset(df) \/ ~HasColumn(df, mapping.release)
            \/ ~HasColumn(df, mapping.project_name) THEN <<>>
    ELSE ColumnValues(df, mapping.project_name,
                      {i \in 1..Len(df.rows) : df.rows[i][mapping.release] = release})

\* The body of get_enterprise_release_ids_by_release_and_project and of
\* get_business_app_ids_by_release_and_project, for the id column given.
IdsByReleaseAndProject(df, is_loaded, mapping, id_key, release, project) ==
    IF ~is_loaded \/ mapping.release = None \/ mapping.project_name = None
           \/ mapping[id_key] = None THEN <<>>
    ELSE IF IsUnset(df) \/ ~HasColumn(df, mapping.release)
            \/ ~HasColumn(df, mapping.project_name)
            \/ ~HasColumn(df, mapping[id_key]) THEN <<>>
    ELSE ColumnValues(df, mapping[id_key],
                      {i \in 1..Len(df.rows) :
                          /\ df.rows[i][mapping.release] = release
                          /\ df.rows[i][mapping.project_name] = project})

\* The body of the data property below its cache test: the legacy dict,
\* or the {} of the except clause when the frame is None.
LegacyData(df, mapping) ==
    IF IsUnset(df) /\ \E k \in DOMAIN mapping : mapping[k] # None THEN EmptyDict
    ELSE [k \in DOMAIN mapping |->
             IF mapping[k] # None /\ HasColumn(df, mapping[k])
             THEN SelectSeq([i \in 1..Len(df.rows) |-> df.rows[i][mapping[k]]],
                            LAMBDA v : v # "NaN")
             ELSE <<>>]

\* Sheets a workbook may hold.
ReleaseColumn == <<"R", "e", "l", "e", "a", "s", "e">>

ProjectColumn == <<"P", "r", "o", "j", "e", "c", "t", " ", "N", "a", "m", "e">>

EnterpriseColumn == <<"E", "n", "t", "e", "r", "p", "r", "i", "s", "e", " ", "R", "e", "l", "e", "a", "s",
  "e", " ", "I", "D">>

AppColumn == <<"B", "u", "s", "i", "n", "e", "s", "s", " ", "A", "p", "p", "l", "i", "c", "a", "t",
  "i", "o", "n", " ", "I", "D">>

Frame(columns, rows) ==
    [columns |-> columns,
     rows |-> [i \in 1..Len(rows) |->
                  [c \in {columns[j] : j \in 1..Len(columns)} |->
                      rows[i][CHOOSE j \in 1..Len(columns) : columns[j] = c]]]]

StandardColumns == <<ReleaseColumn, ProjectColumn, EnterpriseColumn, AppColumn>>

AugustSheet ==
    Frame(StandardColumns,
          << <<"2025.M08", "Apollo", "E1", "B1">>,
             <<"2025.M09", "Borealis", "E2", "NaN">> >>)

OctoberSheet ==
    Frame(StandardColumns, << <<"2025.M10", "Apollo", "E3", "B3">> >>)

RenamedSheet ==
    Frame(<<<<"r", "e", "l", "e", "a", "s", "e", " ", "v", "e", "r", "s", "i", "o", "n">>,
            <<"P", "r", "o", "j", "e", "c", "t">>,
            <<"R", "e", "l", "e", "a", "s", "e", " ", "I", "D">>,
            <<"A", "p", "p", " ", "I", "D">>>>,
          << <<"2025.M08", "Apollo", "E1", "B1">> >>)

EmptySheet == Frame(StandardColumns, <<>>)

Sheets == {AugustSheet, OctoberSheet, RenamedSheet, EmptySheet}

ReaderInit ==
    /\ rd_df = Unset
    /\ rd_is_loaded = FALSE
    /\ rd_column_mapping = Unset
    /\ rd_data_cache = EmptyDict
    /\ rd_memo = EmptyDict
    /\ rd_returned = NoReport
    /\ rd_calls = 0
    /\ StatusIdle
    /\ PipelineIdle
    /\ SelectionIdle
    /\ MatchIdle
    /\ DateIdle
    /\ SlidesIdle
    /\ AnalyzerIdle
    /\ CheckIdle
    /\ EngineIdle
    /\ SimIdle
    /\ AggIdle
    /\ CatalogIdle
    /\ FirstPageIdle

\* What load_data and load_data_from_upload do once read_excel returned
\* the frame: `self._df = ...` comes before the test for an empty frame.
Loaded(frame) ==
    /\ rd_df' = frame
    /\ IF frame.rows = <<>>
       THEN UNCHANGED <<rd_is_loaded, rd_column_mapping, rd_memo>>
       ELSE /\ rd_memo' = FindColumnsMemo(rd_memo, frame, MappingKeys)
            /\ rd_column_mapping' = _build_column_mapping(rd_memo, frame)
            /\ rd_is_loaded' = TRUE

\* load_data(): the file is missing (return False) or holds a sheet.
load_data ==
    /\ rd_calls < MaxReaderCalls
    /\ rd_calls' = rd_calls + 1
    /\ rd_returned' = NoReport
    /\ \/ UNCHANGED <<rd_df, rd_is_loaded, rd_column_mapping, rd_memo>>
       \/ \E frame \in Sheets : Loaded(frame)
    /\ UNCHANGED <<rd_data_cache, reader_rest>>

\* load_data_from_upload(uploaded_file): read_excel raises (return False)
\* or returns a sheet.
load_data_from_upload ==
    /\ rd_calls < MaxReaderCalls
    /\ rd_calls' = rd_calls + 1
    /\ rd_returned' = NoReport
    /\ \/ UNCHANGED <<rd_df, rd_is_loaded, rd_column_mapping, rd_memo>>
       \/ \E frame \in Sheets : Loaded(frame)
    /\ UNCHANGED <<rd_data_cache, reader_rest>>

\* clear_cache(): the dict cache and the frame; the lru_cache wrappers,
\* _is_loaded and _column_mapping are left as they are.
clear_cache ==
    /\ rd_calls < MaxReaderCalls
    /\ rd_calls' = rd_calls + 1
    /\ rd_returned' = NoReport
    /\ rd_data_cache' = EmptyDict
    /\ rd_df' = Unset
    /\ UNCHANGED <<rd_is_loaded, rd_column_mapping, rd_memo, reader_rest>>

\* reader.get_releases()
GetReleases ==
    /\ rd_calls < MaxReaderCalls
    /\ rd_calls' = rd_calls + 1
    /\ LET call == <<"get_releases">>
           r == Memoized(rd_memo, call, get_releases(rd_df, rd_is_loaded, rd_column_mapping))
       IN  /\ rd_memo' = r.memo
           /\ rd_returned' = [call |-> call, value |-> r.value]
    /\ UNCHANGED <<rd_df, rd_is_loaded, rd_column_mapping, rd_data_cache, reader_rest>>

\* reader.get_projects_by_release(release)
GetProjectsByRelease ==
    /\ rd_calls < MaxReaderCalls
    /\ rd_calls' = rd_calls + 1
    /\ \E release \in {"2025.M08"} :
          LET call == <<"get_projects_by_release", release>>
              r == Memoized(rd_memo, call,
                       get_projects_by_release(rd_df, rd_is_loaded, rd_column_mapping,
                                               release))
          IN  /\ rd_memo' = r.memo
              /\ rd_returned' = [call |-> call, value |-> r.value]
    /\ UNCHANGED <<rd_df, rd_is_loaded, rd_column_mapping, rd_data_cache, reader_rest>>

\* reader.get_enterprise_release_ids_by_release_and_project(release, project)
GetEnterpriseReleaseIds ==
    /\ rd_calls < MaxReaderCalls
    /\ rd_calls' = rd_calls + 1
    /\ \E release \in {"2025.M08"}, project \in {"Apollo"} :
          LET call == <<"get_enterprise_release_ids_by_release_and_project", release, project>>
              r == Memoized(rd_memo, call,
                       IdsByReleaseAndProject(rd_df, rd_is_loaded, rd_column_mapping,
                                              "enterprise_release_id", release, project))
          IN  /\ rd_memo' = r.memo
              /\ rd_returned' = [call |-> call, value |-> r.value]
    /\ UNCHANGED <<rd_df, rd_is_loaded, rd_column_mapping, rd_data_cache, reader_rest>>

\* reader.get_business_app_ids_by_release_and_project(release, project)
GetBusinessAppIds ==
    /\ rd_calls < MaxReaderCalls
    /\ rd_calls' = rd_calls + 1
    /\ \E release \in {"2025.M08"}, project \in {"Apollo"} :
          LET call == <<"get_business_app_ids_by_release_and_project", release, project>>
              r == Memoized(rd_memo, call,
                       IdsByReleaseAndProject(rd_df, rd_is_loaded, rd_column_mapping,
                                              "business_app_id", release, project))
          IN  /\ rd_memo' = r.memo
              /\ rd_returned' = [call |-> call, value |-> r.value]
    /\ UNCHANGED <<rd_df, rd_is_loaded, rd_column_mapping, rd_data_cache, reader_rest>>

\* reader.data
GetData ==
    /\ rd_calls < MaxReaderCalls
    /\ rd_calls' = rd_calls + 1
    /\ LET call == <<"data">>
           cached == "legacy_data" \in DOMAIN rd_data_cache
           result == LegacyData(rd_df, rd_column_mapping)
           stored == ~IsUnset(rd_df) \/ result # EmptyDict
       IN  /\ rd_returned' =
                  [call |-> call,
                   value |-> IF ~rd_is_loaded THEN EmptyDict
                             ELSE IF cached THEN rd_data_cache.legacy_data
                             ELSE result]
           /\ rd_data_cache' =
                  IF rd_is_loaded /\ ~cached /\ stored
                  THEN [legacy_data |-> result] ELSE rd_data_cache
    /\ UNCHANGED <<rd_df, rd_is_loaded, rd_column_mapping, rd_memo, reader_rest>>

ReaderNext ==
    \/ load_data
    \/ load_data_from_upload
    \/ clear_cache
    \/ GetReleases
    \/ GetProjectsByRelease
    \/ GetEnterpriseReleaseIds
    \/ GetBusinessAppIds
    \/ GetData

SpecReader == ReaderInit /\ [][ReaderNext]_vars

\* The column mapping of the frame the reader holds now, found without any
\* memo, and whether the reader holds data.
CurrentMapping == _build_column_mapping(EmptyDict, rd_df)

DataLoaded == ~IsUnset(rd_df) /\ rd_df.rows # <<>>

\* What a query answers from the data the reader holds now.
CurrentAnswer(call) ==
    CASE call[1] = "get_releases" ->
             get_releases(rd_df, DataLoaded, CurrentMapping)
      [] call[1] = "get_projects_by_release" ->
             get_projects_by_release(rd_df, DataLoaded, CurrentMapping, call[2])
      [] call[1] = "get_enterprise_release_ids_by_release_and_project" ->
             IdsByReleaseAndProject(rd_df, DataLoaded, CurrentMapping,
                                    "enterprise_release_id", call[2], call[3])
      [] call[1] = "get_business_app_ids_by_release_and_project" ->
             IdsByReleaseAndProject(rd_df, DataLoaded, CurrentMapping,
                                    "business_app_id", call[2], call[3])
      [] call[1] = "data" ->
             IF DataLoaded THEN LegacyData(rd_df, CurrentMapping) ELSE EmptyDict

\* C28: after any sequence of load_data, load_data_from_upload, clear_cache
\* and query calls, the value a query returns is the one the data the reader
\* holds at that moment gives (the empty list when nothing is loaded), and
\* the column mapping of a reader that holds data is the mapping of that
\* data: no value memoized under earlier data is returned.
C28ReflectsLoadedData ==
    /\ "call" \in DOMAIN rd_returned => rd_returned.value = CurrentAnswer(rd_returned.call)
    /\ DataLoaded => rd_column_mapping = CurrentMapping

-----------------------------------------------------------------------------
\* The project selection of the two applications: _render_project_selection_ui
\* and _show_test_plan_page of app_core.py, _show_dropdown_selections and
\* _all_selections_made of Version2.  A script run passes the three
\* selectboxes in order; what a selectbox returns is one of its options, the
\* user's choice.

\* Most compliance checks launched in a session.
MaxLaunches == 2

BusinessApplicationColumn == <<"B", "u", "s", "i", "n", "e", "s", "s", " ", "A", "p", "p", "l", "i", "c", "a", "t",
  "i", "o", "n">>

\* The sheet both applications read.
ProjectsSheet ==
    Frame(<<ReleaseColumn, ProjectColumn, EnterpriseColumn, BusinessApplicationColumn>>,
          << <<"2025.M08", "Apollo", "E1", "B1">>,
             <<"2025.M08", "Apollo", "E2", "B2">>,
             <<"2025.M08", "Borealis", "E1", "B1">>,
             <<"2025.M09", "Apollo", "E3", "NaN">> >>)

\* get_releases, get_projects_by_release and
\* get_business_applications_by_release_and_project of the Version2 reader.
V2_get_releases(df) ==
    IF IsUnset(df) \/ ~HasColumn(df, EnterpriseColumn) THEN <<>>
    ELSE ColumnValues(df, EnterpriseColumn, 1..Len(df.rows))

V2_get_projects_by_release(df, release) ==
    IF IsUnset(df) \/ ~HasColumn(df, EnterpriseColumn) \/ ~HasColumn(df, ProjectColumn)
    THEN <<>>
    ELSE ColumnValues(df, ProjectColumn,
                      {i \in 1..Len(df.rows) : df.rows[i][EnterpriseColumn] = release})

V2_get_business_applications(df, release, project) ==
    IF IsUnset(df) \/ ~HasColumn(df, EnterpriseColumn) \/ ~HasColumn(df, ProjectColumn)
           \/ ~HasColumn(df, BusinessApplicationColumn)
    THEN <<>>
    ELSE ColumnValues(df, BusinessApplicationColumn,
                      {i \in 1..Len(df.rows) :
                          /\ df.rows[i][EnterpriseColumn] = release
                          /\ df.rows[i][ProjectColumn] = project})

\* The column a key of the project record is read from.
ColumnNamed ==
    [k \in ProjectKeys |->
        CASE k = "Release" -> ReleaseColumn
          [] k = "Project Name" -> ProjectColumn
          [] k = "Business Application" -> BusinessApplicationColumn
          [] k = "Application ID" -> <<"A", "p", "p", "l", "i", "c", "a", "t", "i", "o", "n", " ", "I", "D">>
          [] k = "Enterprise Release ID" -> EnterpriseColumn
          [] k = "Clarity Project ID" -> <<"C", "l", "a", "r", "i", "t", "y", " ", "P", "r", "o", "j", "e", "c", "t", " ", "I",
  "D">>
          [] k = "Install Start Date" -> <<"I", "n", "s", "t", "a", "l", "l", " ", "S", "t", "a", "r", "t", " ", "D", "a", "t",
  "e">>]

\* get_project_data_by_release_criteria: the first row of the triple, {}
\* without one.  (The cell values carry no blanks for strip() to remove.)
get_project_data_by_release_criteria(df, release, project, business_app) ==
    LET rows == {i \in 1..Len(df.rows) :
                    /\ df.rows[i][EnterpriseColumn] = release
                    /\ df.rows[i][ProjectColumn] = project
                    /\ df.rows[i][BusinessApplicationColumn] = business_app}
        row == df.rows[CHOOSE i \in rows : \A j \in rows : i <= j]
    IN  IF IsUnset(df) \/ rows = {} THEN EmptyDict
        ELSE [k \in ProjectKeys |->
                 IF ~HasColumn(df, ColumnNamed[k]) THEN ""
                 ELSE IF row[ColumnNamed[k]] = "NaN" THEN "nan"
                 ELSE row[ColumnNamed[k]]]

\* The options of a selectbox: the blank option, then the values.
Options(blank, values) == {blank} \cup {values[i] : i \in 1..Len(values)}

\* A store of the release that leaves the lower levels as they are.
ReleaseOnly(session, selected_release) ==
    [session EXCEPT !.selected_release = selected_release]

\* The session after a changed release, a changed project and a changed
\* third selection.
ReleaseChanged(session, selected_release) ==
    [session EXCEPT !.selected_release = selected_release,
                    !.selected_project = NotSelected,
                    !.selected_third = NotSelected,
                    !.project_data = Unset]

ProjectChanged(session, selected_project) ==
    [session EXCEPT !.selected_project = selected_project,
                    !.selected_third = NotSelected,
                    !.project_data = Unset]

ThirdChanged(session, selected_third) ==
    [session EXCEPT !.selected_third = selected_third,
                    !.project_data = Unset]

Session ==
    [selected_release |-> sel_release, selected_project |-> sel_project,
     selected_third |-> sel_third, project_data |-> sel_project_data]

\* The session is stored.
Store(session) ==
    /\ sel_release' = session.selected_release
    /\ sel_project' = session.selected_project
    /\ sel_third' = session.selected_third
    /\ sel_project_data' = session.project_data

\* `selected if selected else None` of app_core.py.
OrNone(selected) == IF selected = "" THEN NotSelected ELSE selected

CoreMapping == _build_column_mapping(EmptyDict, ProjectsSheet)

SelectionInit ==
    /\ sel_impl \in {"app_core", "Version2"}
    /\ sel_release = NotSelected
    /\ sel_project = NotSelected
    /\ sel_third = NotSelected
    /\ sel_project_data = Unset
    /\ sel_pc = "release"
    /\ sel_launched = <<>>
    /\ StatusIdle
    /\ PipelineIdle
    /\ ReaderIdle
    /\ MatchIdle
    /\ DateIdle
    /\ SlidesIdle
    /\ AnalyzerIdle
    /\ CheckIdle
    /\ EngineIdle
    /\ SimIdle
    /\ AggIdle
    /\ CatalogIdle
    /\ FirstPageIdle

\* app_core.py, col1: the release selectbox; a change is stored and the
\* script is run again (st.rerun()).
CoreSelectRelease ==
    /\ sel_impl = "app_core"
    /\ sel_pc = "release"
    /\ LET releases == get_releases(ProjectsSheet, TRUE, CoreMapping)
       IN  IF releases = <<>>
           THEN sel_pc' = "ready" /\ UNCHANGED <<sel_release, sel_project, sel_third,
                                                 sel_project_data>>
           ELSE \E selected_release \in Options("", releases) :
                   IF selected_release # sel_release
                   THEN /\ Store([ReleaseChanged(Session, OrNone(selected_release))
                                     EXCEPT !.project_data = sel_project_data])
                        /\ sel_pc' = "release"
                   ELSE /\ sel_pc' = "project"
                        /\ UNCHANGED <<sel_release, sel_project, sel_third, sel_project_data>>
    /\ UNCHANGED <<sel_impl, sel_launched, select_rest>>

\* app_core.py, col2: the project selectbox.
CoreSelectProject ==
    /\ sel_impl = "app_core"
    /\ sel_pc = "project"
    /\ LET projects == get_projects_by_release(ProjectsSheet, TRUE, CoreMapping, sel_release)
       IN  IF sel_release = NotSelected \/ projects = <<>>
           THEN sel_pc' = "third" /\ UNCHANGED <<sel_release, sel_project, sel_third,
                                                 sel_project_data>>
           ELSE \E selected_project \in Options("", projects) :
                   IF selected_project # sel_project
                   THEN /\ Store([ProjectChanged(Session, OrNone(selected_project))
                                     EXCEPT !.project_data = sel_project_data])
                        /\ sel_pc' = "release"
                   ELSE /\ sel_pc' = "third"
                        /\ UNCHANGED <<sel_release, sel_project, sel_third, sel_project_data>>
    /\ UNCHANGED <<sel_impl, sel_launched, select_rest>>

\* app_core.py, col3: the Enterprise Release ID selectbox.
CoreSelectEnterpriseReleaseId ==
    /\ sel_impl = "app_core"
    /\ sel_pc = "third"
    /\ LET enterprise_release_ids ==
               IdsByReleaseAndProject(ProjectsSheet, TRUE, CoreMapping,
                                      "enterprise_release_id", sel_release, sel_project)
       IN  IF sel_release = NotSelected \/ sel_project = NotSelected
                  \/ enterprise_release_ids = <<>>
           THEN UNCHANGED <<sel_release, sel_project, sel_third, sel_project_data>>
           ELSE \E selected_eid \in Options("", enterprise_release_ids) :
                   IF selected_eid # sel_third
                   THEN Store([Session EXCEPT !.selected_third = OrNone(selected_eid)])
                   ELSE UNCHANGED <<sel_release, sel_project, sel_third, sel_project_data>>
    /\ sel_pc' = "ready"
    /\ UNCHANGED <<sel_impl, sel_launched, select_rest>>

\* _show_test_plan_page: the Check Compliance button with a file uploaded;
\* it is enabled by the three selections.
CoreLaunch ==
    /\ sel_impl = "app_core"
    /\ sel_pc = "ready"
    /\ Len(sel_launched) < MaxLaunches
    /\ sel_release # NotSelected /\ sel_project # NotSelected /\ sel_third # NotSelected
    /\ sel_launched' = Append(sel_launched, Session)
    /\ UNCHANGED <<sel_impl, sel_release, sel_project, sel_third, sel_project_data, sel_pc,
                   select_rest>>

\* Version2: the release selectbox of _show_dropdown_selections.
V2SelectRelease ==
    /\ sel_impl = "Version2"
    /\ sel_pc = "release"
    /\ LET releases == V2_get_releases(ProjectsSheet)
       IN  IF releases = <<>>
           THEN UNCHANGED <<sel_release, sel_project, sel_third, sel_project_data>>
           ELSE \E selected_release \in Options(NotSelected, releases) :
                   IF selected_release # sel_release
                   THEN Store(ReleaseChanged(Session, selected_release))
                   ELSE UNCHANGED <<sel_release, sel_project, sel_third, sel_project_data>>
    /\ sel_pc' = IF sel_release' # NotSelected THEN "project" ELSE "ready"
    /\ UNCHANGED <<sel_impl, sel_launched, select_rest>>

\* Version2: the project selectbox.
V2SelectProject ==
    /\ sel_impl = "Version2"
    /\ sel_pc = "project"
    /\ LET projects == V2_get_projects_by_release(ProjectsSheet, sel_release)
       IN  IF projects = <<>>
           THEN UNCHANGED <<sel_release, sel_project, sel_third, sel_project_data>>
           ELSE \E selected_project \in Options(NotSelected, projects) :
                   IF selected_project # sel_project
                   THEN Store(ProjectChanged(Session, selected_project))
                   ELSE UNCHANGED <<sel_release, sel_project, sel_third, sel_project_data>>
    /\ sel_pc' = IF sel_project' # NotSelected THEN "third" ELSE "ready"
    /\ UNCHANGED <<sel_impl, sel_launched, select_rest>>

\* Version2: the business application selectbox and the load of
\* project_data that follows it.
V2SelectBusinessApplication ==
    /\ sel_impl = "Version2"
    /\ sel_pc = "third"
    /\ LET business_apps ==
               V2_get_business_applications(ProjectsSheet, sel_release, sel_project)
           Loaded_(session) ==
               IF session.selected_third # NotSelected /\ IsUnset(session.project_data)
               THEN [session EXCEPT !.project_data =
                        get_project_data_by_release_criteria(ProjectsSheet,
                            session.selected_release, session.selected_project,
                            session.selected_third)]
               ELSE session
       IN  IF business_apps = <<>>
           THEN UNCHANGED <<sel_release, sel_project, sel_third, sel_project_data>>
           ELSE \E selected_business_app \in Options(NotSelected, business_apps) :
                   IF selected_business_app # sel_third
                   THEN Store(Loaded_(ThirdChanged(Session, selected_business_app)))
                   ELSE Store(Loaded_(Session))
    /\ sel_pc' = "ready"
    /\ UNCHANGED <<sel_impl, sel_launched, select_rest>>

\* Version2: a check is run once _all_selections_made() holds and a file
\* is uploaded.
V2Launch ==
    /\ sel_impl = "Version2"
    /\ sel_pc = "ready"
    /\ Len(sel_launched) < MaxLaunches
    /\ sel_release # NotSelected /\ sel_project # NotSelected /\ sel_third # NotSelected
    /\ ~IsUnset(sel_project_data)
    /\ sel_launched' = Append(sel_launched, Session)
    /\ UNCHANGED <<sel_impl, sel_release, sel_project, sel_third, sel_project_data, sel_pc,
                   select_rest>>

\* The user touches a widget and the script runs again.
ScriptRerun ==
    /\ sel_pc = "ready"
    /\ sel_pc' = "release"
    /\ UNCHANGED <<sel_impl, sel_release, sel_project, sel_third, sel_project_data,
                   sel_launched, select_rest>>

SelectionNext ==
    \/ CoreSelectRelease
    \/ CoreSelectProject
    \/ CoreSelectEnterpriseReleaseId
    \/ CoreLaunch
    \/ V2SelectRelease
    \/ V2SelectProject
    \/ V2SelectBusinessApplication
    \/ V2Launch
    \/ ScriptRerun

SpecSelection == SelectionInit /\ [][SelectionNext]_vars

\* A session is hierarchically consistent: no project without a release, no
\* third selection without a project, and in Version2 a project_data that
\* is not None is the record of the selected triple.
Hierarchical(session) ==
    /\ session.selected_project # NotSelected => session.selected_release # NotSelected
    /\ session.selected_third # NotSelected => session.selected_project # NotSelected
    /\ ~IsUnset(session.project_data) =>
           /\ session.selected_third # NotSelected
           /\ session.project_data =
                  get_project_data_by_release_criteria(ProjectsSheet,
                      session.selected_release, session.selected_project,
                      session.selected_third)

\* A step that changes the release leaves no project, third selection or
\* project_data behind; a step that changes the project leaves no third
\* selection or project_data behind.
LowerLevelsCleared ==
    /\ sel_release' # sel_release =>
           /\ sel_project' = NotSelected
           /\ sel_third' = NotSelected
           /\ sel_impl = "Version2" => IsUnset(sel_project_data')
    /\ sel_project' # sel_project =>
           /\ sel_third' = NotSelected
           /\ sel_impl = "Version2" => IsUnset(sel_project_data')

\* C29: in the project-selection flow the session state is hierarchically
\* consistent after any sequence of selection changes (a project only with
\* a release, the third selection only with a project, in Version2 a
\* project_data that is not None is the record of the selected triple),
\* every compliance check is launched with a complete and consistent
\* selection, and a change of the release or of the project clears every
\* lower-level selection and project_data in the same step.
C29HierarchicalSelection ==
    /\ [](Hierarchical(Session)
            /\ \A i \in 1..Len(sel_launched) :
                   /\ Hierarchical(sel_launched[i])
                   /\ sel_launched[i].selected_third # NotSelected)
    /\ [][LowerLevelsCleared]_vars

\* A check was launched for one triple, the release was changed, and a
\* second check was launched for a triple of the new release.
C29Witness ==
    /\ sel_impl = "Version2"
    /\ Len(sel_launched) = 2
    /\ sel_launched[1].selected_release = "E1"
    /\ sel_launched[2].selected_release = "E2"
    /\ sel_launched[2].project_data.Release = "2025.M08"

=============================================================================
